---- MODULE Spec2Model ----
(***************************************************************************)
(* Model of the trade-guardian risk dashboard: the TradingProvider state   *)
(* container (src/src/context/TradingContext.tsx), the journal and         *)
(* settings handlers that drive it, the pure functions of                  *)
(* src/src/lib/riskEngine.ts, the localStorage helpers and the CSV export  *)
(* of storage.ts, and the login gate of LoginScreen.tsx and                *)
(* TradingPlatform.tsx.                                                    *)
(*                                                                         *)
(* Numbers that the code obtains by division are kept as exact fractions   *)
(* [n, d]; d = 0 encodes the IEEE results of a division by zero            *)
(* (n = 1: +Infinity, n = 0: NaN).  Where the rounding of a quotient, a    *)
(* product or a sum shows in what a function returns, the numbers are      *)
(* binary64 doubles [e, m].  React state updaters are queued by the        *)
(* handlers and applied one at a time while the provider renders.          *)
(***************************************************************************)
EXTENDS Integers, Sequences, FiniteSets, TLC

VARIABLES portfolio, trades, riskLimits, session,
          portfolioQ, tradesQ, sessionQ, limitsQ,
          phase, calls, burst, nextId, tradeCap,
          storage, metrics, boot, loaded, login,
          vArgs, vResult, call, result

vars == <<portfolio, trades, riskLimits, session, portfolioQ, tradesQ,
          sessionQ, limitsQ, phase, calls, burst, nextId, tradeCap,
          storage, metrics, boot, loaded, login, vArgs, vResult, call, result>>

\* what a handler of the screens leaves alone besides the provider's state:
\* the risk-limit updaters, localStorage, the metrics, the start-up of the
\* provider and the login gate
sideVars == <<limitsQ, tradeCap, storage, metrics, boot, loaded, login>>

providerVars == <<portfolio, trades, riskLimits, session, portfolioQ,
                  tradesQ, sessionQ, phase, calls, burst, nextId, sideVars>>

\* the provider, which the login gate does not touch
providerVarsBelowGate ==
    <<portfolio, trades, riskLimits, session, portfolioQ, tradesQ, sessionQ, limitsQ,
      phase, calls, burst, nextId, tradeCap, storage, metrics, boot, loaded>>

\* the arguments and the result of a call of a pure function of riskEngine.ts
validatorVars == <<vArgs, vResult, call, result>>

(***************************************************************************)
(* Bounds of the model.                                                    *)
(***************************************************************************)
MaxTrades == 2
MaxPending == 2
MaxMetricTrades == 4
MaxMonths == 3

(***************************************************************************)
(* Inputs the handlers are driven with.                                    *)
(***************************************************************************)
Sides == {"LONG", "SHORT"}
EntryInputs == {100}
StopInputs == {99}
TargetInputs == {101, 102}
QtyInputs == {2}
ExitInputs == {90, 100, 110}
CapitalInputs == {100}
LeverageInputs == {2}

(***************************************************************************)
(* Exact arithmetic.                                                       *)
(***************************************************************************)
Abs(x) == IF x < 0 THEN -x ELSE x

RECURSIVE Gcd(_, _)
Gcd(a, b) == IF b = 0 THEN a ELSE Gcd(b, a % b)

\* n / d as the code's floating division yields it: a reduced fraction,
\* +Infinity or -Infinity for a non-zero numerator over 0, NaN for 0 / 0.
Rat(n, d) ==
    IF d = 0 THEN [n |-> IF n > 0 THEN 1 ELSE IF n < 0 THEN -1 ELSE 0, d |-> 0]
    ELSE LET s == IF d < 0 THEN -1 ELSE 1
             g == Gcd(Abs(n), Abs(d))
         IN  [n |-> (s * n) \div g, d |-> (s * d) \div g]

FromInt(i) == [n |-> i, d |-> 1]
IsNaN(a) == a.d = 0 /\ a.n = 0
IsInf(a) == a.d = 0 /\ a.n # 0

\* a / b < c / d for b > 0 and d > 0, by comparing the integer parts and then
\* the reciprocals of the fractional parts, so that no product is formed.
RECURSIVE FracLt(_, _, _, _)
FracLt(a, b, c, d) ==
    IF a \div b # c \div d THEN a \div b < c \div d
    ELSE IF c % d = 0 THEN FALSE
    ELSE IF a % b = 0 THEN TRUE
    ELSE FracLt(d, c % d, b, a % b)

\* a < b on IEEE numbers: every comparison with NaN is false.
RLt(a, b) ==
    IF IsNaN(a) \/ IsNaN(b) THEN FALSE
    ELSE IF IsInf(a) /\ IsInf(b) THEN a.n < b.n
    ELSE IF IsInf(a) THEN a.n < 0
    ELSE IF IsInf(b) THEN b.n > 0
    ELSE FracLt(a.n, a.d, b.n, b.d)

RGt(a, b) == RLt(b, a)
RGe(a, b) == ~IsNaN(a) /\ ~IsNaN(b) /\ ~RLt(a, b)
RLe(a, b) == RGe(b, a)

\* Math.max on two finite numbers.
RMax(a, b) == IF RLt(a, b) THEN b ELSE a

\* a / b for non-negative fractions a, b.
RDiv(a, b) == Rat(a.n * b.d, a.d * b.n)

(***************************************************************************)
(* Binary64 arithmetic for the quotients whose rounding decides a          *)
(* comparison.  A positive double is [e, m]: m is its 53-bit significand   *)
(* as one leading digit in 8..15 followed by seven base-128 digits, and    *)
(* its value is m * 2^(e - 52).  Results are rounded to nearest, ties to   *)
(* even, as the hardware does.                                             *)
(***************************************************************************)
FZero == [e |-> -2000, m |-> <<0, 0, 0, 0, 0, 0, 0, 0>>]

\* scale n / d by powers of two into [8, 16)
RECURSIVE FNorm(_, _, _)
FNorm(n, d, e) ==
    IF n < 8 * d THEN FNorm(2 * n, d, e - 1)
    ELSE IF n >= 16 * d THEN FNorm(n, 2 * d, e + 1)
    ELSE [n |-> n, d |-> d, e |-> e]

\* the next k base-128 digits of r / d, and the remainder left
RECURSIVE FQuot(_, _, _)
FQuot(r, d, k) ==
    IF k = 0 THEN [m |-> <<>>, r |-> r]
    ELSE LET rest == FQuot((r * 128) % d, d, k - 1)
         IN  [m |-> <<(r * 128) \div d>> \o rest.m, r |-> rest.r]

\* the significand plus one unit in the last place (the leading digit may
\* reach 16)
RECURSIVE FIncr(_)
FIncr(m) ==
    IF Len(m) = 1 THEN <<m[1] + 1>>
    ELSE IF m[Len(m)] < 127 THEN [m EXCEPT ![Len(m)] = m[Len(m)] + 1]
    ELSE FIncr(SubSeq(m, 1, Len(m) - 1)) \o <<0>>

FRound(m, e, up) ==
    IF ~up THEN [e |-> e, m |-> m]
    ELSE IF FIncr(m)[1] = 16 THEN [e |-> e + 1, m |-> <<8, 0, 0, 0, 0, 0, 0, 0>>]
    ELSE [e |-> e, m |-> FIncr(m)]

\* the double nearest to n / d, for integers n >= 0 and d > 0
Fl(n, d) ==
    IF n = 0 THEN FZero
    ELSE LET s == FNorm(n, d, 3)
             q == FQuot(s.n % s.d, s.d, 7)
             m == <<s.n \div s.d>> \o q.m
             up == 2 * q.r > s.d \/ (2 * q.r = s.d /\ m[8] % 2 = 1)
         IN  FRound(m, s.e, up)

\* the digits of m * k, the carries gathered in the leading digit
RECURSIVE FMulDigits(_, _)
FMulDigits(m, k) ==
    IF Len(m) = 1 THEN <<m[1] * k>>
    ELSE LET lo == FMulDigits(Tail(m), k)
         IN  <<m[1] * k + lo[1] \div 128, lo[1] % 128>> \o Tail(lo)

\* x * 100, rounded
FTimes100(x) ==
    IF x = FZero THEN FZero
    ELSE LET direct == FMulDigits(x.m, 100)[1] >= 1024
             p == IF direct THEN FMulDigits(x.m, 100) ELSE FMulDigits(x.m, 200)
             m == <<p[1] \div 128, p[1] % 128>> \o SubSeq(p, 2, 7)
             up == p[8] > 64 \/ (p[8] = 64 /\ p[7] % 2 = 1)
         IN  FRound(m, IF direct THEN x.e + 7 ELSE x.e + 6, up)

RECURSIVE DigitsLt(_, _)
DigitsLt(a, b) ==
    IF a = <<>> THEN FALSE
    ELSE IF Head(a) # Head(b) THEN Head(a) < Head(b)
    ELSE DigitsLt(Tail(a), Tail(b))

FLt(x, y) == x.e < y.e \/ (x.e = y.e /\ DigitsLt(x.m, y.m))
FGe(x, y) == ~FLt(x, y)

\* digits with carries and borrows moved to the left, so that every digit
\* but the leading one is in 0..127
RECURSIVE FCarry(_)
FCarry(m) ==
    IF Len(m) = 1 THEN m
    ELSE LET last == m[Len(m)] + 128 * 128
             rest == SubSeq(m, 1, Len(m) - 1)
         IN  FCarry([rest EXCEPT ![Len(rest)] = @ + (last \div 128) - 128])
                \o <<last % 128>>

\* bits followed by the next k bits of r / d, for digit strings r < 2 * d,
\* and whether the rest of the quotient is zero
RECURSIVE FQuotBits(_, _, _, _)
FQuotBits(r, d, k, bits) ==
    IF k = 0 THEN [bits |-> bits, exact |-> \A i \in DOMAIN r : r[i] = 0]
    ELSE IF DigitsLt(r, d)
         THEN FQuotBits(FCarry([i \in DOMAIN r |-> 2 * r[i]]), d, k - 1, bits \o <<0>>)
         ELSE FQuotBits(FCarry([i \in DOMAIN r |-> 2 * (r[i] - d[i])]), d, k - 1,
                        bits \o <<1>>)

\* the number written by a string of bits
RECURSIVE BitsValue(_)
BitsValue(b) ==
    IF b = <<>> THEN 0 ELSE 2 * BitsValue(SubSeq(b, 1, Len(b) - 1)) + b[Len(b)]

\* 53 bits as a significand
BitsToDigits(b) ==
    <<BitsValue(SubSeq(b, 1, 4))>>
        \o [i \in 1..7 |-> BitsValue(SubSeq(b, 7 * i - 2, 7 * i + 4))]

RECURSIVE BitsOf(_, _)
BitsOf(v, k) == IF k = 0 THEN <<>> ELSE BitsOf(v \div 2, k - 1) \o <<v % 2>>

\* the 53 bits of a significand
DigitsToBits(m) ==
    BitsOf(m[1], 4) \o BitsOf(m[2], 7) \o BitsOf(m[3], 7) \o BitsOf(m[4], 7)
        \o BitsOf(m[5], 7) \o BitsOf(m[6], 7) \o BitsOf(m[7], 7) \o BitsOf(m[8], 7)

\* x / y, rounded, for positive doubles x and y
FDiv(x, y) ==
    LET q == FQuotBits(x.m, y.m, 55, <<>>)
        skip == 1 - q.bits[1]
        m == BitsToDigits(SubSeq(q.bits, 1 + skip, 53 + skip))
        round == q.bits[54 + skip] = 1
        sticky == ~q.exact \/ (skip = 0 /\ q.bits[55] = 1)
        up == round /\ (sticky \/ m[8] % 2 = 1)
    IN  FRound(m, x.e - y.e - skip, up)

\* Math.floor of a double x with 0 <= x < 2^30
FFloor(x) ==
    IF x.e < 0 THEN 0 ELSE BitsValue(SubSeq(DigitsToBits(x.m), 1, x.e + 1))

\* a string of k zero bits
Zeros(k) == [i \in 1..k |-> 0]

\* the double with the first 53 bits of a string of bits that starts with a
\* 1 and stands for a number in [2^e, 2^(e + 1)), rounded by the bits left
FFromBits(b, e) ==
    LET padded == b \o Zeros(2)
        m == BitsToDigits(SubSeq(padded, 1, 53))
        round == padded[54] = 1
        sticky == \E i \in 55..Len(padded) : padded[i] = 1
    IN  FRound(m, e, round /\ (sticky \/ m[8] % 2 = 1))

\* the coefficients of the product of two significands, by powers of 128
FProduct(a, b) ==
    [k \in 1..15 |->
        LET terms == {i \in 1..8 : k + 1 - i \in 1..8}
            Term(i) == a[i] * b[k + 1 - i]
            F[n \in 0..8] == IF n = 0 THEN 0
                              ELSE F[n - 1] + (IF n \in terms THEN Term(n) ELSE 0)
        IN  F[8]]

RECURSIVE DigitsBits(_)
DigitsBits(m) == IF m = <<>> THEN <<>> ELSE BitsOf(Head(m), 7) \o DigitsBits(Tail(m))

\* x * y, rounded, for doubles x >= 0 and y >= 0
FMul(x, y) ==
    IF x = FZero \/ y = FZero THEN FZero
    ELSE LET p == FCarry(FProduct(x.m, y.m))
             bits == BitsOf(p[1], 8) \o DigitsBits(Tail(p))
             skip == 1 - bits[1]
         IN  FFromBits(SubSeq(bits, 1 + skip, Len(bits)), x.e + y.e + 1 - skip)

\* 112 bits as sixteen base-128 digits
BitsToDigits16(b) == [i \in 1..16 |-> BitsValue(SubSeq(b, 7 * i - 6, 7 * i))]

\* x + y, rounded, for doubles x >= 0 and y >= 0
FAdd(x, y) ==
    IF x = FZero THEN y
    ELSE IF y = FZero THEN x
    ELSE LET hi == IF x.e >= y.e THEN x ELSE y
             lo == IF x.e >= y.e THEN y ELSE x
             shift == hi.e - lo.e
         IN  IF shift > 54 THEN hi
             ELSE LET a == BitsToDigits16(Zeros(59 - shift) \o DigitsToBits(hi.m)
                                            \o Zeros(shift))
                      b == BitsToDigits16(Zeros(59) \o DigitsToBits(lo.m))
                      bits == DigitsBits(FCarry([i \in 1..16 |-> a[i] + b[i]]))
                      first == CHOOSE i \in 1..112 :
                                  bits[i] = 1 /\ \A j \in 1..(i - 1) : bits[j] = 0
                  IN  FFromBits(SubSeq(bits, first, 112), lo.e + 60 - first)

(***************************************************************************)
(* riskEngine.ts                                                           *)
(***************************************************************************)
\* the limits are numbers, kept as fractions: a limit may be typed as 14.5
DEFAULT_RISK_LIMITS ==
    [riskPerTrade |-> FromInt(1), dailyLossLimit |-> FromInt(3),
     weeklyLossLimit |-> FromInt(6), monthlyLossLimit |-> FromInt(12)]

calculateDrawdown(currentEquity, peakEquity) ==
    IF peakEquity <= 0 THEN FromInt(0)
    ELSE Rat((peakEquity - currentEquity) * 100, peakEquity)

\* the double that a number written as the fraction r denotes
Double(r) == Fl(r.n, r.d)

\* (Math.abs(pnl) / capital) * 100, in binary64, for capital > 0
LossPercent(pnl, capital) == FTimes100(Fl(Abs(pnl), capital))

LossLimitBreached(pnl, capital, limit) ==
    pnl < 0 /\ FGe(LossPercent(pnl, capital), Double(limit))

DrawdownWarningThreshold == 10
DrawdownErrorThreshold == 20
MinRiskReward == 2

DrawdownElevated(drawdown) == RGt(drawdown, FromInt(DrawdownWarningThreshold))

\* Mutant of DrawdownExceeded: a drawdown of exactly 20 is an error.
DrawdownExceeded_Inclusive(drawdown) == RGe(drawdown, FromInt(20))

DrawdownExceeded(drawdown) == RGt(drawdown, FromInt(DrawdownErrorThreshold))

Push(cond, msg) == IF cond THEN <<msg>> ELSE <<>>

\* Mutant of validateTrade: a warning makes the result invalid.
validateTrade_WarningsBlock(riskReward, riskPercent, limits, p) ==
    LET errors ==
            Push(RLt(riskReward, FromInt(2)), "RR")
         \o Push(RGt(riskPercent, limits.riskPerTrade), "RISK")
         \o Push(LossLimitBreached(p.dailyPnL, p.capital, limits.dailyLossLimit), "DAILY")
         \o Push(LossLimitBreached(p.weeklyPnL, p.capital, limits.weeklyLossLimit), "WEEKLY")
         \o Push(LossLimitBreached(p.monthlyPnL, p.capital, limits.monthlyLossLimit), "MONTHLY")
         \o Push(RGt(p.drawdown, FromInt(20)), "DRAWDOWN")
         \o Push(p.isTradingLocked, "LOCKED")
        warnings == Push(RGt(p.drawdown, FromInt(10)), "DRAWDOWN_ELEVATED")
    IN  [isValid |-> Len(errors) = 0 /\ Len(warnings) = 0,
         errors |-> errors, warnings |-> warnings]

\* Mutant of validateTrade: the trading lock is checked first.
validateTrade_LockFirst(riskReward, riskPercent, limits, p) ==
    LET errors ==
            Push(p.isTradingLocked, "LOCKED")
         \o Push(RLt(riskReward, FromInt(2)), "RR")
         \o Push(RGt(riskPercent, limits.riskPerTrade), "RISK")
         \o Push(LossLimitBreached(p.dailyPnL, p.capital, limits.dailyLossLimit), "DAILY")
         \o Push(LossLimitBreached(p.weeklyPnL, p.capital, limits.weeklyLossLimit), "WEEKLY")
         \o Push(LossLimitBreached(p.monthlyPnL, p.capital, limits.monthlyLossLimit), "MONTHLY")
         \o Push(RGt(p.drawdown, FromInt(20)), "DRAWDOWN")
        warnings == Push(RGt(p.drawdown, FromInt(10)), "DRAWDOWN_ELEVATED")
    IN  [isValid |-> Len(errors) = 0, errors |-> errors, warnings |-> warnings]

\* The messages are represented by the rule that pushes them.
validateTrade(riskReward, riskPercent, limits, p) ==
    LET errors ==
            Push(RLt(riskReward, FromInt(MinRiskReward)), "RR")
         \o Push(RGt(riskPercent, limits.riskPerTrade), "RISK")
         \o Push(LossLimitBreached(p.dailyPnL, p.capital, limits.dailyLossLimit), "DAILY")
         \o Push(LossLimitBreached(p.weeklyPnL, p.capital, limits.weeklyLossLimit), "WEEKLY")
         \o Push(LossLimitBreached(p.monthlyPnL, p.capital, limits.monthlyLossLimit), "MONTHLY")
         \o Push(DrawdownExceeded(p.drawdown), "DRAWDOWN")
         \o Push(p.isTradingLocked, "LOCKED")
        warnings == Push(DrawdownElevated(p.drawdown), "DRAWDOWN_ELEVATED")
    IN  [isValid |-> Len(errors) = 0, errors |-> errors, warnings |-> warnings]

(***************************************************************************)
(* TradingContext.tsx: state of the provider                               *)
(***************************************************************************)
DefaultCapital == 100000
NoReason == "undefined"
Undefined == <<>>
Some(v) == <<v>>

DEFAULT_PORTFOLIO ==
    [capital |-> DefaultCapital, leverage |-> 1,
     effectiveCapital |-> DefaultCapital,
     currentEquity |-> DefaultCapital, peakEquity |-> DefaultCapital,
     dailyPnL |-> 0, weeklyPnL |-> 0, monthlyPnL |-> 0,
     drawdown |-> FromInt(0), maxDrawdown |-> FromInt(0),
     isTradingLocked |-> FALSE, lockReason |-> NoReason]

DEFAULT_SESSION == [isActive |-> FALSE, tradesCount |-> 0, consecutiveLosses |-> 0]

\* { ...prev, ...updates }
Merge(prev, updates) ==
    [f \in DOMAIN prev |-> IF f \in DOMAIN updates THEN updates[f] ELSE prev[f]]

\* Mutant of updatePortfolio: maxDrawdown is overwritten by the new drawdown.
updatePortfolio_NoRunningMax(prev, updates) ==
    LET u0 == Merge(prev, updates)
        u1 == [u0 EXCEPT !.effectiveCapital = u0.capital * u0.leverage]
        u2 == [u1 EXCEPT !.drawdown = calculateDrawdown(u1.currentEquity, u1.peakEquity)]
        u3 == [u2 EXCEPT !.maxDrawdown = u2.drawdown]
    IN  IF u3.currentEquity > u3.peakEquity
        THEN [u3 EXCEPT !.peakEquity = u3.currentEquity]
        ELSE u3

\* Mutant of updatePortfolio: the peak is raised only by a strictly larger
\* equity that also exceeds the capital.
updatePortfolio_PeakNotRaised(prev, updates) ==
    LET u0 == Merge(prev, updates)
        u1 == [u0 EXCEPT !.effectiveCapital = u0.capital * u0.leverage]
        u2 == [u1 EXCEPT !.drawdown = calculateDrawdown(u1.currentEquity, u1.peakEquity)]
        u3 == [u2 EXCEPT !.maxDrawdown = RMax(u2.maxDrawdown, u2.drawdown)]
    IN  IF u3.currentEquity > u3.peakEquity /\ "currentEquity" \notin DOMAIN updates
        THEN [u3 EXCEPT !.peakEquity = u3.currentEquity]
        ELSE u3

\* The updater that updatePortfolio(updates) hands to setPortfolio.
updatePortfolio(prev, updates) ==
    LET u0 == Merge(prev, updates)
        u1 == [u0 EXCEPT !.effectiveCapital = u0.capital * u0.leverage]
        u2 == [u1 EXCEPT !.drawdown = calculateDrawdown(u1.currentEquity, u1.peakEquity)]
        u3 == [u2 EXCEPT !.maxDrawdown = RMax(u2.maxDrawdown, u2.drawdown)]
    IN  IF u3.currentEquity > u3.peakEquity
        THEN [u3 EXCEPT !.peakEquity = u3.currentEquity]
        ELSE u3

lockTrading(prev, reason) ==
    [prev EXCEPT !.isTradingLocked = TRUE, !.lockReason = reason]

unlockTrading(prev) ==
    [prev EXCEPT !.isTradingLocked = FALSE, !.lockReason = NoReason]

ApplyPortfolioUpdater(prev, u) ==
    CASE u.op = "update" -> updatePortfolio(prev, u.updates)
      [] u.op = "lock"   -> lockTrading(prev, u.reason)
      [] u.op = "unlock" -> unlockTrading(prev)
      [] u.op = "set"    -> u.value

(***************************************************************************)
(* TradingContext.tsx: the trade list                                      *)
(***************************************************************************)
HasId(list, id) == \E i \in DOMAIN list : list[i].id = id

\* prev.find(t => t.id === id), for an id that is in the list
Find(list, id) == list[CHOOSE i \in DOMAIN list : list[i].id = id]

Filter(list, keep(_)) == SelectSeq(list, keep)

\* Mutant of ClosePnl: a SHORT trade is priced like a LONG one.
ClosePnl_SideIgnored(t, exitPrice) == (exitPrice - t.entryPrice) * t.quantity

ClosePnl(t, exitPrice) ==
    IF t.side = "LONG"
    THEN (exitPrice - t.entryPrice) * t.quantity
    ELSE (t.entryPrice - exitPrice) * t.quantity

\* Mutant of CloseMap: the exit price is not stored.
CloseMap_ExitNotStored(list, id, exitPrice) ==
    [i \in DOMAIN list |->
        IF list[i].id # id THEN list[i]
        ELSE [list[i] EXCEPT !.pnl = Some(ClosePnl(list[i], exitPrice)),
                             !.status = "CLOSED"]]

\* first updater of closeTrade: prev.map(...)
CloseMap(list, id, exitPrice) ==
    [i \in DOMAIN list |->
        IF list[i].id # id THEN list[i]
        ELSE [list[i] EXCEPT !.exitPrice = Some(exitPrice),
                             !.pnl = Some(ClosePnl(list[i], exitPrice)),
                             !.status = "CLOSED"]]

\* prev.filter(t => t.id !== id)
DeleteFilter(list, id) == LET keep(t) == t.id # id IN Filter(list, keep)

\* trade?.pnl is truthy: the trade is found, its pnl is defined and not 0
PnlTruthy(list, id) ==
    /\ HasId(list, id)
    /\ Find(list, id).pnl # Undefined
    /\ Find(list, id).pnl[1] # 0

\* Mutant of CloseUpdates: the monthly accumulator is not advanced.
CloseUpdates_MonthlySkipped(snap, pnl) ==
    [dailyPnL |-> snap.dailyPnL + pnl,
     weeklyPnL |-> snap.weeklyPnL + pnl,
     monthlyPnL |-> snap.monthlyPnL,
     currentEquity |-> snap.currentEquity + pnl]

\* The object literal closeTrade passes to updatePortfolio: the portfolio
\* captured by the closure when closeTrade was called, plus the pnl.
CloseUpdates(snap, pnl) ==
    [dailyPnL |-> snap.dailyPnL + pnl,
     weeklyPnL |-> snap.weeklyPnL + pnl,
     monthlyPnL |-> snap.monthlyPnL + pnl,
     currentEquity |-> snap.currentEquity + pnl]

\* The setPortfolio and setSession updaters that the second updater of
\* closeTrade enqueues while it runs.
CloseFxPortfolio(list, u) ==
    IF PnlTruthy(list, u.id)
    THEN <<[op |-> "update", updates |-> CloseUpdates(u.snap, Find(list, u.id).pnl[1])]>>
    ELSE <<>>

CloseFxSession(list, u) ==
    IF PnlTruthy(list, u.id)
    THEN IF Find(list, u.id).pnl[1] < 0 THEN <<[op |-> "loss"]>> ELSE <<[op |-> "clear"]>>
    ELSE <<>>

ApplyTradesUpdater(list, u) ==
    CASE u.op = "add"      -> Append(list, u.trade)
      [] u.op = "closeMap" -> CloseMap(list, u.id, u.exitPrice)
      [] u.op = "closeFx"  -> list
      [] u.op = "delete"   -> DeleteFilter(list, u.id)
      [] u.op = "set"      -> u.value

(***************************************************************************)
(* TradingContext.tsx: the session                                         *)
(***************************************************************************)
LossStreakLock == 3
CooldownReason == "3 consecutive losses - mandatory cooldown"

ApplySessionUpdater(s, u) ==
    CASE u.op = "count" -> [s EXCEPT !.tradesCount = s.tradesCount + 1]
      [] u.op = "loss"  -> [s EXCEPT !.consecutiveLosses = s.consecutiveLosses + 1]
      [] u.op = "clear" -> [s EXCEPT !.consecutiveLosses = 0]

\* Mutant of SessionFxPortfolio: trading is locked one loss later.
SessionFxPortfolio_OneLossLater(s, u) ==
    IF u.op = "loss" /\ s.consecutiveLosses + 1 > LossStreakLock
    THEN <<[op |-> "lock", reason |-> CooldownReason]>>
    ELSE <<>>

\* lockTrading called from inside the consecutive-loss updater
SessionFxPortfolio(s, u) ==
    IF u.op = "loss" /\ s.consecutiveLosses + 1 >= LossStreakLock
    THEN <<[op |-> "lock", reason |-> CooldownReason]>>
    ELSE <<>>

(***************************************************************************)
(* riskEngine.ts: calculatePerformanceMetrics, which the provider applies  *)
(* to its trade list after every change of the list.                       *)
(***************************************************************************)
NaN == [n |-> 0, d |-> 0]

\* a - b on IEEE numbers
RSub(a, b) ==
    IF IsNaN(a) \/ IsNaN(b) THEN NaN
    ELSE IF IsInf(a) /\ IsInf(b) THEN (IF a.n = b.n THEN NaN ELSE a)
    ELSE IF IsInf(a) THEN a
    ELSE IF IsInf(b) THEN [n |-> -b.n, d |-> 0]
    ELSE Rat(a.n * b.d - b.n * a.d, a.d * b.d)

\* a * k for an integer k > 0
RScale(a, k) == IF a.d = 0 THEN a ELSE Rat(a.n * k, a.d)

\* Math.min and Math.max: NaN if either argument is NaN
MathMin(a, b) == IF IsNaN(a) \/ IsNaN(b) THEN NaN ELSE IF RLt(b, a) THEN b ELSE a
MathMax(a, b) == IF IsNaN(a) \/ IsNaN(b) THEN NaN ELSE IF RLt(a, b) THEN b ELSE a

\* t.pnl ?? 0
PnlOrZero(t) == IF t.pnl = Undefined THEN 0 ELSE t.pnl[1]

\* Mutant of ClosedTrades: only OPEN trades are left out.
ClosedTrades_NotOpen(list) ==
    LET Test(t) == t.status # "OPEN" IN SelectSeq(list, Test)

\* trades.filter(t => t.status === 'CLOSED' && t.pnl !== undefined)
ClosedTrades(list) ==
    LET Test(t) == t.status = "CLOSED" /\ t.pnl # Undefined IN SelectSeq(list, Test)

WinningTrades(closed) == LET Test(t) == PnlOrZero(t) > 0 IN SelectSeq(closed, Test)

\* Mutant of LosingTrades: a trade with pnl 0 counts as a loss.
LosingTrades_ZeroCounted(closed) ==
    LET Test(t) == PnlOrZero(t) <= 0 IN SelectSeq(closed, Test)

LosingTrades(closed) == LET Test(t) == PnlOrZero(t) < 0 IN SelectSeq(closed, Test)

\* reduce((sum, t) => sum + (t.pnl ?? 0), 0)
RECURSIVE SumPnl(_)
SumPnl(list) == IF list = <<>> THEN 0 ELSE PnlOrZero(Head(list)) + SumPnl(Tail(list))

Max(a, b) == IF a >= b THEN a ELSE b

NoStreaks == [maxWinStreak |-> 0, maxLossStreak |-> 0,
              currentWinStreak |-> 0, currentLossStreak |-> 0]

\* Mutant of StreakStep: a trade with pnl 0 leaves both runs as they are.
StreakStep_ZeroSkipped(k, trade) ==
    IF PnlOrZero(trade) > 0
    THEN [k EXCEPT !.currentWinStreak = k.currentWinStreak + 1,
                   !.currentLossStreak = 0,
                   !.maxWinStreak = Max(k.maxWinStreak, k.currentWinStreak + 1)]
    ELSE IF PnlOrZero(trade) = 0 THEN k
    ELSE [k EXCEPT !.currentLossStreak = k.currentLossStreak + 1,
                   !.currentWinStreak = 0,
                   !.maxLossStreak = Max(k.maxLossStreak, k.currentLossStreak + 1)]

\* the body of closedTrades.forEach
StreakStep(k, trade) ==
    IF PnlOrZero(trade) > 0
    THEN [k EXCEPT !.currentWinStreak = k.currentWinStreak + 1,
                   !.currentLossStreak = 0,
                   !.maxWinStreak = Max(k.maxWinStreak, k.currentWinStreak + 1)]
    ELSE [k EXCEPT !.currentLossStreak = k.currentLossStreak + 1,
                   !.currentWinStreak = 0,
                   !.maxLossStreak = Max(k.maxLossStreak, k.currentLossStreak + 1)]

RECURSIVE Streaks(_, _)
Streaks(closed, k) ==
    IF closed = <<>> THEN k ELSE Streaks(Tail(closed), StreakStep(k, Head(closed)))

\* a * b on finite fractions
RMul(a, b) == Rat(a.n * b.n, a.d * b.d)

Infinity == [n |-> 1, d |-> 0]

EmptyMetrics ==
    [totalTrades |-> 0, winningTrades |-> 0, losingTrades |-> 0,
     winRate |-> FromInt(0), avgWin |-> FromInt(0), avgLoss |-> FromInt(0),
     expectancy |-> FromInt(0), profitFactor |-> FromInt(0),
     maxWinStreak |-> 0, maxLossStreak |-> 0, currentStreak |-> 0,
     streakType |-> "NONE"]

\* The quotients are kept exact.
calculatePerformanceMetrics(list) ==
    LET closedTrades == ClosedTrades(list)
        winningTrades == WinningTrades(closedTrades)
        losingTrades == LosingTrades(closedTrades)
        totalWins == SumPnl(winningTrades)
        totalLosses == Abs(SumPnl(losingTrades))
        avgWin == IF Len(winningTrades) > 0 THEN Rat(totalWins, Len(winningTrades))
                  ELSE FromInt(0)
        avgLoss == IF Len(losingTrades) > 0 THEN Rat(totalLosses, Len(losingTrades))
                   ELSE FromInt(0)
        winRate == Rat(Len(winningTrades) * 100, Len(closedTrades))
        winFraction == Rat(Len(winningTrades), Len(closedTrades))
        expectancy == RSub(RMul(avgWin, winFraction),
                           RMul(avgLoss, RSub(FromInt(1), winFraction)))
        profitFactor == IF totalLosses > 0 THEN Rat(totalWins, totalLosses)
                        ELSE IF totalWins > 0 THEN Infinity ELSE FromInt(0)
        k == Streaks(closedTrades, NoStreaks)
        lastPnl == PnlOrZero(closedTrades[Len(closedTrades)])
        streakType == IF lastPnl > 0 THEN "WIN" ELSE IF lastPnl < 0 THEN "LOSS" ELSE "NONE"
        currentStreak == IF streakType = "WIN" THEN k.currentWinStreak
                         ELSE IF streakType = "LOSS" THEN k.currentLossStreak ELSE 0
    IN  IF Len(closedTrades) = 0 THEN EmptyMetrics
        ELSE [totalTrades |-> Len(closedTrades),
              winningTrades |-> Len(winningTrades),
              losingTrades |-> Len(losingTrades),
              winRate |-> winRate, avgWin |-> avgWin, avgLoss |-> avgLoss,
              expectancy |-> expectancy, profitFactor |-> profitFactor,
              maxWinStreak |-> k.maxWinStreak, maxLossStreak |-> k.maxLossStreak,
              currentStreak |-> currentStreak, streakType |-> streakType]

(***************************************************************************)
(* storage.ts: localStorage holds one JSON text per key; a key that was    *)
(* never written is absent.  JSON.stringify writes a number that is not    *)
(* finite as null and leaves out a field that is undefined.                *)
(***************************************************************************)
Null == [n |-> 0, d |-> -1]

JsonNumber(r) == IF r.d = 0 THEN Null ELSE r

JsonTrade(t) == [t EXCEPT !.riskReward = JsonNumber(@)]

JsonTrades(list) == [i \in 1..Len(list) |-> JsonTrade(list[i])]

JsonPortfolio(p) ==
    [p EXCEPT !.drawdown = JsonNumber(@), !.maxDrawdown = JsonNumber(@)]

JsonLimits(l) == [f \in DOMAIN l |-> JsonNumber(l[f])]

EmptyStorage == [trades |-> Undefined, portfolio |-> Undefined, limits |-> Undefined]

saveTrades(st, list) == [st EXCEPT !.trades = Some(JsonTrades(list))]

loadTrades(st) == IF st.trades = Undefined THEN <<>> ELSE st.trades[1]

savePortfolio(st, p) == [st EXCEPT !.portfolio = Some(JsonPortfolio(p))]

\* null, written Undefined, if no portfolio was ever saved
loadPortfolio(st) == st.portfolio

saveRiskLimits(st, l) == [st EXCEPT !.limits = Some(JsonLimits(l))]

loadRiskLimits(st) == IF st.limits = Undefined THEN DEFAULT_RISK_LIMITS ELSE st.limits[1]

\* Mutant of SaveEffects: the trade list is not saved.
SaveEffects_TradesSkipped(st, p, list, l) == saveRiskLimits(savePortfolio(st, p), l)

\* the three save effects of the provider, in declaration order
SaveEffects(st, p, list, l) == saveRiskLimits(saveTrades(savePortfolio(st, p), list), l)

\* what the load effect read: savedPortfolio, savedTrades, savedLimits
Loaded(st) ==
    [portfolio |-> loadPortfolio(st), trades |-> loadTrades(st),
     limits |-> loadRiskLimits(st)]

(***************************************************************************)
(* LoginScreen.tsx and TradingPlatform.tsx: the login gate.  The provider  *)
(* is mounted only while the user is logged in.                            *)
(***************************************************************************)
LoginForm == [password |-> "", confirmPassword |-> "", isSettingPassword |-> FALSE,
              error |-> ""]

\* the user has set the password "abcd" and is logged in
SignedIn ==
    [loggedIn |-> TRUE, authenticated |-> Some(TRUE), storedPassword |-> Some("abcd"),
     form |-> LoginForm]

(***************************************************************************)
(* Initial state: the provider right after construction, nothing queued,   *)
(* and the validator not called yet.                                       *)
(***************************************************************************)
NoResult == [isValid |-> FALSE, errors |-> <<"none">>, warnings |-> <<>>]

DefaultArgs ==
    [riskReward |-> FromInt(MinRiskReward), riskPercent |-> FromInt(1),
     limits |-> DEFAULT_RISK_LIMITS, portfolio |-> DEFAULT_PORTFOLIO]

\* no other function of riskEngine.ts is being called
NoCall == [fn |-> "none", args |-> <<>>]

\* the state the hooks of TradingProvider are created with
InitMemory ==
    /\ portfolio = DEFAULT_PORTFOLIO
    /\ trades = <<>>
    /\ riskLimits = DEFAULT_RISK_LIMITS
    /\ session = DEFAULT_SESSION
    /\ portfolioQ = <<>>
    /\ tradesQ = <<>>
    /\ sessionQ = <<>>
    /\ phase = "idle"
    /\ calls = 0
    /\ limitsQ = <<>>
    /\ metrics = calculatePerformanceMetrics(<<>>)
    /\ loaded = Loaded(EmptyStorage)

\* the provider after it started on an empty localStorage: the save effects
\* of the first commit have written the defaults
InitProvider ==
    /\ InitMemory
    /\ login = SignedIn
    /\ nextId = 1
    /\ tradeCap = MaxTrades
    /\ storage = SaveEffects(EmptyStorage, DEFAULT_PORTFOLIO, <<>>, DEFAULT_RISK_LIMITS)
    /\ boot = "ready"

\* burst is the number of calls a caller makes before the provider renders
\* again: 1 for the screens, whose every click is rendered before the next.
Init ==
    /\ InitProvider
    /\ burst = 1
    /\ vArgs = DefaultArgs
    /\ vResult = NoResult
    /\ call = NoCall
    /\ result = Undefined

InitQuick ==
    /\ InitProvider
    /\ burst = MaxPending
    /\ vArgs = DefaultArgs
    /\ vResult = NoResult
    /\ call = NoCall
    /\ result = Undefined

(***************************************************************************)
(* Handlers.  A handler runs between two renders of the provider: it reads *)
(* the committed state and enqueues updaters.                              *)
(***************************************************************************)
CanCall == phase = "idle" /\ boot = "ready" /\ calls < burst

Called ==
    /\ calls' = calls + 1
    /\ UNCHANGED <<phase, burst, portfolio, trades, riskLimits, session, validatorVars, sideVars>>

\* CapitalLeverage.tsx, Settings: every caller of updatePortfolio
CallUpdatePortfolio(updates) ==
    /\ CanCall
    /\ portfolioQ' = Append(portfolioQ, [op |-> "update", updates |-> updates])
    /\ UNCHANGED <<tradesQ, sessionQ, nextId>>
    /\ Called

HandleCapitalUpdate ==
    \E newCapital \in CapitalInputs :
        /\ newCapital > 0
        /\ CallUpdatePortfolio([capital |-> newCapital, currentEquity |-> newCapital,
                                peakEquity |-> newCapital])

HandleLeverageChange ==
    \E leverage \in LeverageInputs : CallUpdatePortfolio([leverage |-> leverage])

ResetDailyPnL == CallUpdatePortfolio([dailyPnL |-> 0])

HandleResetWeeklyPnL == CallUpdatePortfolio([weeklyPnL |-> 0])

HandleResetMonthlyPnL == CallUpdatePortfolio([monthlyPnL |-> 0])

HandleResetDrawdown ==
    CallUpdatePortfolio([peakEquity |-> portfolio.currentEquity, maxDrawdown |-> FromInt(0)])

\* RiskManager.tsx: the lock button toggles on the rendered flag
ToggleLock ==
    /\ CanCall
    /\ IF portfolio.isTradingLocked
       THEN /\ portfolioQ' = Append(portfolioQ, [op |-> "unlock"])
            /\ sessionQ' = Append(sessionQ, [op |-> "clear"])
       ELSE /\ portfolioQ' = Append(portfolioQ, [op |-> "lock", reason |-> "Manual lock"])
            /\ UNCHANGED sessionQ
    /\ UNCHANGED <<tradesQ, nextId>>
    /\ Called

\* TradeJournal.tsx handleAddTrade, calling addTrade when the validator accepts
NewTrade(id, side, entry, sl, target, qty, riskReward) ==
    [id |-> id, side |-> side, entryPrice |-> entry, stopLoss |-> sl,
     target |-> target, quantity |-> qty, exitPrice |-> Undefined,
     pnl |-> Undefined, riskReward |-> riskReward, status |-> "OPEN"]

SlPercent(entry, sl) == Rat(Abs(entry - sl) * 100, Abs(entry))

TargetPercent(entry, target) == Rat(Abs(target - entry) * 100, Abs(entry))

\* Mutant of Accepted: the trade is added whatever the validator returned.
Accepted_Always(validation, proceed) == TRUE

\* the add flow goes on to addTrade: the validator returned no error and the
\* user confirmed the warnings, if there are any
Accepted(validation, proceed) ==
    validation.isValid /\ (Len(validation.warnings) > 0 => proceed)

HandleAddTrade ==
    \E side \in Sides, entry \in EntryInputs, sl \in StopInputs,
       target \in TargetInputs, qty \in QtyInputs, proceed \in BOOLEAN :
        LET slPercent == SlPercent(entry, sl)
            riskReward == RDiv(TargetPercent(entry, target), slPercent)
            validation == validateTrade(riskReward, slPercent, riskLimits, portfolio)
        IN  /\ CanCall
            /\ nextId <= tradeCap
            /\ entry # 0 /\ sl # 0 /\ target # 0 /\ qty # 0
            /\ Accepted(validation, proceed)
            /\ tradesQ' = Append(tradesQ,
                    [op |-> "add",
                     trade |-> NewTrade(nextId, side, entry, sl, target, qty, riskReward)])
            /\ sessionQ' = Append(sessionQ, [op |-> "count"])
            /\ nextId' = nextId + 1
            /\ UNCHANGED portfolioQ
            /\ Called

\* closeTrade(id, exitPrice): two setTrades updaters; the second one carries
\* the portfolio the closure captured.
closeTrade(id, exitPrice) ==
    /\ tradesQ' = tradesQ \o
            <<[op |-> "closeMap", id |-> id, exitPrice |-> exitPrice],
              [op |-> "closeFx", id |-> id, snap |-> portfolio]>>
    /\ UNCHANGED <<portfolioQ, sessionQ, nextId>>
    /\ Called

\* TradeJournal.tsx handleCloseTrade: the close button exists for the trades
\* rendered as OPEN
CloseOpen(i, exitPrice) ==
    /\ CanCall
    /\ trades[i].status = "OPEN"
    /\ closeTrade(trades[i].id, exitPrice)

HandleCloseTrade ==
    \E i \in DOMAIN trades, exitPrice \in ExitInputs : CloseOpen(i, exitPrice)

\* closeTrade was already called for this trade since the last render
PendingClose(id) ==
    \E j \in DOMAIN tradesQ : tradesQ[j].op = "closeMap" /\ tradesQ[j].id = id

\* the close of an OPEN trade other than those closed since the last render
CloseAnotherTrade ==
    \E i \in DOMAIN trades, exitPrice \in ExitInputs :
        /\ ~PendingClose(trades[i].id)
        /\ CloseOpen(i, exitPrice)

\* TradeJournal.tsx: the delete button of an open trade
HandleDeleteTrade ==
    \E i \in DOMAIN trades :
        /\ CanCall
        /\ trades[i].status = "OPEN"
        /\ tradesQ' = Append(tradesQ, [op |-> "delete", id |-> trades[i].id])
        /\ UNCHANGED <<portfolioQ, sessionQ, nextId>>
        /\ Called

(***************************************************************************)
(* Rendering the provider: the hooks are processed in declaration order    *)
(* (portfolio, trades, session); updaters enqueued on the portfolio while  *)
(* the other hooks are processed are applied in the re-render pass.        *)
(***************************************************************************)
BeginRender ==
    /\ phase = "idle"
    /\ calls > 0
    /\ phase' = "portfolio"
    /\ UNCHANGED <<portfolio, trades, riskLimits, session, portfolioQ, tradesQ,
                   sessionQ, calls, burst, nextId, validatorVars, sideVars>>

RenderPortfolio ==
    /\ phase \in {"portfolio", "rerender"}
    /\ portfolioQ # <<>>
    /\ portfolio' = ApplyPortfolioUpdater(portfolio, Head(portfolioQ))
    /\ portfolioQ' = Tail(portfolioQ)
    /\ UNCHANGED <<trades, riskLimits, session, tradesQ, sessionQ, phase, calls,
                   burst, nextId, validatorVars, sideVars>>

RenderTrades ==
    /\ phase = "trades"
    /\ tradesQ # <<>>
    /\ LET u == Head(tradesQ)
       IN  /\ trades' = ApplyTradesUpdater(trades, u)
           /\ IF u.op = "closeFx"
              THEN /\ portfolioQ' = portfolioQ \o CloseFxPortfolio(trades, u)
                   /\ sessionQ' = sessionQ \o CloseFxSession(trades, u)
              ELSE UNCHANGED <<portfolioQ, sessionQ>>
    /\ tradesQ' = Tail(tradesQ)
    /\ UNCHANGED <<portfolio, riskLimits, session, phase, calls, burst, nextId, validatorVars, sideVars>>

RenderSession ==
    /\ phase = "session"
    /\ sessionQ # <<>>
    /\ session' = ApplySessionUpdater(session, Head(sessionQ))
    /\ portfolioQ' = portfolioQ \o SessionFxPortfolio(session, Head(sessionQ))
    /\ sessionQ' = Tail(sessionQ)
    /\ UNCHANGED <<portfolio, trades, riskLimits, tradesQ, phase, calls, burst, nextId,
                   validatorVars, sideVars>>

RenderLimits ==
    /\ phase = "riskLimits"
    /\ limitsQ # <<>>
    /\ riskLimits' = Merge(riskLimits, Head(limitsQ))
    /\ limitsQ' = Tail(limitsQ)
    /\ UNCHANGED <<portfolio, trades, session, portfolioQ, tradesQ, sessionQ, phase,
                   calls, burst, nextId, tradeCap, storage, metrics, boot, loaded,
                   login, validatorVars>>

NextPhase(ph) ==
    CASE ph = "portfolio" -> "trades"
      [] ph = "trades"    -> "riskLimits"
      [] ph = "riskLimits" -> "session"
      [] ph = "session"   -> "rerender"
      [] ph = "rerender"  -> "idle"

PhaseDone ==
    CASE phase = "portfolio" -> portfolioQ = <<>>
      [] phase = "trades"    -> tradesQ = <<>>
      [] phase = "riskLimits" -> limitsQ = <<>>
      [] phase = "session"   -> sessionQ = <<>>
      [] phase = "rerender"  -> portfolioQ = <<>>
      [] OTHER               -> FALSE

\* the hook has no updater left: go on to the next hook, and commit after
\* the re-render pass; the effects run after the commit: the state is saved
\* and the metrics are computed from the trade list
Advance ==
    /\ PhaseDone
    /\ phase' = NextPhase(phase)
    /\ calls' = IF phase = "rerender" THEN 0 ELSE calls
    /\ IF phase = "rerender"
       THEN /\ storage' = SaveEffects(storage, portfolio, trades, riskLimits)
            /\ metrics' = calculatePerformanceMetrics(trades)
            /\ boot' = IF boot = "rendering" THEN "ready" ELSE boot
       ELSE UNCHANGED <<storage, metrics, boot>>
    /\ UNCHANGED <<portfolio, trades, riskLimits, session, portfolioQ, tradesQ,
                   sessionQ, limitsQ, burst, nextId, tradeCap, loaded, login,
                   validatorVars>>

\* the riskLimits hook has an updater only after the load effect: the
\* specifications that set no limits leave RenderLimits out
Render == BeginRender \/ RenderPortfolio \/ RenderTrades \/ RenderSession \/ Advance

(***************************************************************************)
(* Spec: every operation of the screens, each call rendered before the     *)
(* next one is made (React flushes the updates of a click before it        *)
(* dispatches the next event).                                             *)
(***************************************************************************)
Next ==
    \/ HandleAddTrade
    \/ HandleCloseTrade
    \/ HandleDeleteTrade
    \/ HandleCapitalUpdate
    \/ HandleLeverageChange
    \/ ResetDailyPnL
    \/ HandleResetWeeklyPnL
    \/ HandleResetMonthlyPnL
    \/ HandleResetDrawdown
    \/ ToggleLock
    \/ Render

Spec == Init /\ [][Next]_vars

(***************************************************************************)
(* SpecQuick: the operations on the trade list called in quick succession, *)
(* up to MaxPending calls before the provider renders again.               *)
(***************************************************************************)
NextQuick == HandleAddTrade \/ HandleCloseTrade \/ HandleDeleteTrade \/ Render

SpecQuick == InitQuick /\ [][NextQuick]_vars

(***************************************************************************)
(* SpecSeq: addTrade and closeTrade only, each call rendered before the    *)
(* next, from the default portfolio.                                       *)
(***************************************************************************)
NextSeq == HandleAddTrade \/ HandleCloseTrade \/ Render

SpecSeq == Init /\ [][NextSeq]_vars

(***************************************************************************)
(* SpecClose: addTrade, and closeTrade called for distinct OPEN trades in  *)
(* quick succession.                                                       *)
(***************************************************************************)
NextClose == HandleAddTrade \/ CloseAnotherTrade \/ Render

SpecClose == InitQuick /\ [][NextClose]_vars

(***************************************************************************)
(* SpecJournal: the journal with every submit of the add form modelled,    *)
(* the rejected ones too; vArgs and vResult hold the last call of the      *)
(* validator and what it returned.  The stop-loss and the target may be    *)
(* the entry price.                                                        *)
(***************************************************************************)
FormStopInputs == StopInputs \cup EntryInputs
FormTargetInputs == TargetInputs \cup EntryInputs

SubmitAddForm ==
    \E side \in Sides, entry \in EntryInputs, sl \in FormStopInputs,
       target \in FormTargetInputs, qty \in QtyInputs, proceed \in BOOLEAN :
        LET slPercent == SlPercent(entry, sl)
            riskReward == RDiv(TargetPercent(entry, target), slPercent)
            validation == validateTrade(riskReward, slPercent, riskLimits, portfolio)
        IN  /\ CanCall
            /\ nextId <= tradeCap
            /\ entry # 0 /\ sl # 0 /\ target # 0 /\ qty # 0
            /\ vArgs' = [riskReward |-> riskReward, riskPercent |-> slPercent,
                         limits |-> riskLimits, portfolio |-> portfolio]
            /\ vResult' = validation
            /\ IF Accepted(validation, proceed)
               THEN /\ tradesQ' = Append(tradesQ,
                           [op |-> "add",
                            trade |-> NewTrade(nextId, side, entry, sl, target, qty,
                                               riskReward)])
                    /\ sessionQ' = Append(sessionQ, [op |-> "count"])
                    /\ nextId' = nextId + 1
                    /\ calls' = calls + 1
               ELSE UNCHANGED <<tradesQ, sessionQ, nextId, calls>>
            /\ UNCHANGED <<portfolio, trades, riskLimits, session, portfolioQ, phase,
                           burst, call, result, sideVars>>

NextJournal ==
    \/ SubmitAddForm
    \/ HandleCloseTrade
    \/ HandleDeleteTrade
    \/ ToggleLock
    \/ Render

SpecJournal == Init /\ [][NextJournal]_vars

(***************************************************************************)
(* SpecStreak: the journal with up to StreakTrades trades entered, closed  *)
(* one after the other, and the lock button.                               *)
(***************************************************************************)
StreakTrades == 3

InitStreak ==
    /\ InitMemory
    /\ login = SignedIn
    /\ nextId = 1
    /\ tradeCap = StreakTrades
    /\ storage = SaveEffects(EmptyStorage, DEFAULT_PORTFOLIO, <<>>, DEFAULT_RISK_LIMITS)
    /\ boot = "ready"
    /\ burst = 1
    /\ vArgs = DefaultArgs
    /\ vResult = NoResult
    /\ call = NoCall
    /\ result = Undefined

NextStreak == HandleAddTrade \/ HandleCloseTrade \/ ToggleLock \/ Render

SpecStreak == InitStreak /\ [][NextStreak]_vars

(***************************************************************************)
(* SpecReclose: closeTrade of the context called for any trade of the      *)
(* list, OPEN or CLOSED, each call rendered before the next.  The calls    *)
(* stop once the equity is MaxDrift away from the capital.                 *)
(***************************************************************************)
MaxDrift == 30

CallCloseTrade ==
    \E i \in DOMAIN trades, exitPrice \in ExitInputs :
        /\ CanCall
        /\ Abs(portfolio.currentEquity - portfolio.capital) <= MaxDrift
        /\ closeTrade(trades[i].id, exitPrice)

NextReclose == HandleAddTrade \/ CallCloseTrade \/ Render

SpecReclose == Init /\ [][NextReclose]_vars

(***************************************************************************)
(* SpecStart: the provider mounts on a localStorage that holds data of an  *)
(* earlier run.  The effects of the first commit run in declaration order  *)
(* (load, savePortfolio, saveTrades and setMetrics, saveRiskLimits); the   *)
(* state the load effect set is rendered after them.  The journal is used  *)
(* once the start-up has settled.                                          *)
(***************************************************************************)
LoadEffect ==
    /\ boot = "mounted"
    /\ LET saved == Loaded(storage)
       IN  /\ loaded' = saved
           /\ portfolioQ' = IF saved.portfolio # Undefined
                            THEN Append(portfolioQ, [op |-> "set", value |-> saved.portfolio[1]])
                            ELSE portfolioQ
           /\ tradesQ' = IF Len(saved.trades) > 0
                         THEN Append(tradesQ, [op |-> "set", value |-> saved.trades])
                         ELSE tradesQ
           /\ limitsQ' = Append(limitsQ, saved.limits)
    /\ boot' = "loaded"
    /\ UNCHANGED <<portfolio, trades, riskLimits, session, sessionQ, phase, calls, burst,
                   nextId, tradeCap, storage, metrics, login, validatorVars>>

SavePortfolioEffect ==
    /\ boot = "loaded"
    /\ storage' = savePortfolio(storage, portfolio)
    /\ boot' = "portfolioSaved"
    /\ UNCHANGED <<portfolio, trades, riskLimits, session, portfolioQ, tradesQ, sessionQ,
                   limitsQ, phase, calls, burst, nextId, tradeCap, metrics, loaded, login,
                   validatorVars>>

SaveTradesEffect ==
    /\ boot = "portfolioSaved"
    /\ storage' = saveTrades(storage, trades)
    /\ metrics' = calculatePerformanceMetrics(trades)
    /\ boot' = "tradesSaved"
    /\ UNCHANGED <<portfolio, trades, riskLimits, session, portfolioQ, tradesQ, sessionQ,
                   limitsQ, phase, calls, burst, nextId, tradeCap, loaded, login,
                   validatorVars>>

\* the last effect of the first commit; the render of the loaded state follows
SaveLimitsEffect ==
    /\ boot = "tradesSaved"
    /\ storage' = saveRiskLimits(storage, riskLimits)
    /\ boot' = "rendering"
    /\ calls' = 1
    /\ UNCHANGED <<portfolio, trades, riskLimits, session, portfolioQ, tradesQ, sessionQ,
                   limitsQ, phase, burst, nextId, tradeCap, metrics, loaded, login,
                   validatorVars>>

\* the data of an earlier run: one OPEN trade, or a trade closed at a loss of
\* 20 and an OPEN one, with the portfolio and the limits of that run
StoredOpenTrade(id) == NewTrade(id, "LONG", 100, 99, 102, 2, FromInt(2))

StoredTradeLists ==
    {<<StoredOpenTrade(1)>>,
     <<[StoredOpenTrade(1) EXCEPT !.exitPrice = Some(90), !.pnl = Some(-20),
                                  !.status = "CLOSED"],
       [StoredOpenTrade(2) EXCEPT !.side = "SHORT", !.stopLoss = 101, !.target = 98]>>}

StoredPortfolios ==
    {updatePortfolio(DEFAULT_PORTFOLIO, CloseUpdates(DEFAULT_PORTFOLIO, -20)),
     lockTrading(DEFAULT_PORTFOLIO, "Manual lock")}

StoredLimits ==
    {[riskPerTrade |-> FromInt(2), dailyLossLimit |-> FromInt(5),
      weeklyLossLimit |-> Rat(29, 2), monthlyLossLimit |-> FromInt(5)]}

StorageInputs ==
    {[trades |-> t, portfolio |-> p, limits |-> l] :
        t \in {Undefined, Some(<<>>)} \cup {Some(JsonTrades(list)) : list \in StoredTradeLists},
        p \in {Undefined} \cup {Some(JsonPortfolio(x)) : x \in StoredPortfolios},
        l \in {Undefined} \cup {Some(JsonLimits(x)) : x \in StoredLimits}}

StoredTrades == 2

InitStart ==
    /\ InitMemory
    /\ login = SignedIn
    /\ storage \in StorageInputs
    /\ boot = "mounted"
    /\ nextId = StoredTrades + 1
    /\ tradeCap = StoredTrades + 1
    /\ burst = 1
    /\ vArgs = DefaultArgs
    /\ vResult = NoResult
    /\ call = NoCall
    /\ result = Undefined

NextStart ==
    \/ LoadEffect
    \/ SavePortfolioEffect
    \/ SaveTradesEffect
    \/ SaveLimitsEffect
    \/ Render
    \/ RenderLimits
    \/ HandleAddTrade
    \/ HandleCloseTrade
    \/ HandleDeleteTrade

SpecStart == InitStart /\ [][NextStart]_vars

(***************************************************************************)
(* SpecLogin: the login gate alone, from a page load without the           *)
(* authenticated flag set: typing into the form, submitting it, and the    *)
(* logout button of the sidebar.  LoginScreen is unmounted while the user  *)
(* is logged in and starts with an empty form when it is mounted again.    *)
(***************************************************************************)
MinPasswordLength == 4
PasswordInputs == {"", "abc", "abcd", "abcde", "wxyz", "wxyz1"}

\* isAuthenticated(): false unless the flag was stored
isAuthenticated(flag) == IF flag = Undefined THEN FALSE ELSE flag[1]

\* the "Password" / "New Password" input, or the "Confirm Password" input
\* that replaces it once the password is being set
TypePassword ==
    \E text \in PasswordInputs :
        /\ ~login.loggedIn
        /\ login' = [login EXCEPT
                !.form = IF login.form.isSettingPassword
                         THEN [@ EXCEPT !.confirmPassword = text, !.error = ""]
                         ELSE [@ EXCEPT !.password = text, !.error = ""]]
        /\ UNCHANGED <<providerVarsBelowGate, validatorVars>>

\* TradingPlatform.handleLogin: the flag is stored, LoginScreen is unmounted
onLogin(l) == [l EXCEPT !.authenticated = Some(TRUE), !.loggedIn = TRUE, !.form = LoginForm]

\* Mutant of Confirmed: the confirmation is not compared with the password.
Confirmed_Unchecked(form) == TRUE

Confirmed(form) == form.password = form.confirmPassword

\* LoginScreen.handleLogin
handleLogin(l) ==
    IF l.storedPassword = Undefined \/ l.storedPassword = Some("")
    THEN IF Len(l.form.password) < MinPasswordLength
         THEN [l EXCEPT !.form.error = "Password must be at least 4 characters"]
         ELSE IF l.form.isSettingPassword
         THEN IF ~Confirmed(l.form)
              THEN [l EXCEPT !.form.error = "Passwords do not match"]
              ELSE onLogin([l EXCEPT !.storedPassword = Some(l.form.password)])
         ELSE [l EXCEPT !.form.isSettingPassword = TRUE]
    ELSE IF l.form.password = l.storedPassword[1]
         THEN onLogin(l)
         ELSE [l EXCEPT !.form.error = "Incorrect password"]

SubmitLogin ==
    /\ ~login.loggedIn
    /\ login' = handleLogin(login)
    /\ UNCHANGED <<providerVarsBelowGate, validatorVars>>

\* TradingPlatform.handleLogout
Logout ==
    /\ login.loggedIn
    /\ login' = [login EXCEPT !.authenticated = Some(FALSE), !.loggedIn = FALSE]
    /\ UNCHANGED <<providerVarsBelowGate, validatorVars>>

InitLogin ==
    /\ InitMemory
    /\ nextId = 1
    /\ tradeCap = MaxTrades
    /\ storage = SaveEffects(EmptyStorage, DEFAULT_PORTFOLIO, <<>>, DEFAULT_RISK_LIMITS)
    /\ boot = "ready"
    /\ burst = 1
    /\ vArgs = DefaultArgs
    /\ vResult = NoResult
    /\ call = NoCall
    /\ result = Undefined
    /\ \E flag \in {Undefined, Some(FALSE)}, stored \in {Undefined, Some("abcd")} :
           login = [loggedIn |-> isAuthenticated(flag), authenticated |-> flag,
                    storedPassword |-> stored, form |-> LoginForm]

NextLogin == TypePassword \/ SubmitLogin \/ Logout

SpecLogin == InitLogin /\ [][NextLogin]_vars

(***************************************************************************)
(* SpecValidate: validateTrade applied once to arguments drawn from the    *)
(* sets below; the portfolio argument is the default portfolio with the    *)
(* fields the validator reads replaced.                                    *)
(***************************************************************************)
RiskRewardInputs == {Rat(3, 2), FromInt(2), Rat(5, 2)}
RiskPercentInputs == {Rat(1, 2), FromInt(1), FromInt(2)}
LimitsInputs ==
    {DEFAULT_RISK_LIMITS,
     [riskPerTrade |-> FromInt(2), dailyLossLimit |-> FromInt(5),
      weeklyLossLimit |-> Rat(29, 2), monthlyLossLimit |-> FromInt(5)]}
ValidatorCapitals == {100, 200}
DailyPnLInputs == {-6, -3, -2, 0, 5}
WeeklyPnLInputs == {-29, -12, -6, 0, 7}
MonthlyPnLInputs == {-12, -11, 13}
DrawdownInputs == {FromInt(0), FromInt(10), Rat(21, 2), FromInt(20), Rat(41, 2), FromInt(25)}

PortfolioInputs ==
    {Merge(DEFAULT_PORTFOLIO,
           [capital |-> c, dailyPnL |-> dp, weeklyPnL |-> wp, monthlyPnL |-> mp,
            drawdown |-> dd, isTradingLocked |-> lk,
            lockReason |-> IF lk THEN "Manual lock" ELSE NoReason]) :
        c \in ValidatorCapitals, dp \in DailyPnLInputs, wp \in WeeklyPnLInputs,
        mp \in MonthlyPnLInputs, dd \in DrawdownInputs, lk \in BOOLEAN}

InitValidate ==
    /\ InitProvider
    /\ burst = 1
    /\ vArgs \in [riskReward : RiskRewardInputs, riskPercent : RiskPercentInputs,
                  limits : LimitsInputs, portfolio : PortfolioInputs]
    /\ vResult = NoResult
    /\ call = NoCall
    /\ result = Undefined

ValidateCall ==
    /\ vResult = NoResult
    /\ vResult' = validateTrade(vArgs.riskReward, vArgs.riskPercent,
                                vArgs.limits, vArgs.portfolio)
    /\ UNCHANGED <<vArgs, call, result, providerVars>>

NextValidate == ValidateCall

SpecValidate == InitValidate /\ [][NextValidate]_vars

(***************************************************************************)
(* riskEngine.ts: the calculators.  A call is [fn, args]; result is empty  *)
(* until the function has returned and then holds the value returned.      *)
(***************************************************************************)
KellyCap == 25
HalfKellyFactor == 50

\* winRate, avgWin and avgLoss are integers here; avgLoss is not negative
calculateKellyCriterion(winRate, avgWin, avgLoss) ==
    IF avgLoss = 0 \/ winRate = 0 \/ winRate = 1 THEN FromInt(0)
    ELSE LET winProbability == Rat(winRate, 100)
             lossRatio == Rat(avgWin, avgLoss)
             kelly == RSub(winProbability,
                           RDiv(RSub(FromInt(1), winProbability), lossRatio))
         IN  MathMax(FromInt(0), MathMin(RScale(kelly, HalfKellyFactor), FromInt(KellyCap)))

WinRateInputs == {0, 1, 40, 50, 60, 100}
AvgWinInputs == {0, 100, 200}
AvgLossInputs == {0, 1, 100}

KellyCalls ==
    {[fn |-> "calculateKellyCriterion", args |-> <<w, aw, al>>] :
        w \in WinRateInputs, aw \in AvgWinInputs, al \in AvgLossInputs}

Pending(fn) == call.fn = fn /\ result = Undefined

Return(v) == result' = Some(v) /\ UNCHANGED <<call, vArgs, vResult, providerVars>>

KellyCall ==
    /\ Pending("calculateKellyCriterion")
    /\ Return(calculateKellyCriterion(call.args[1], call.args[2], call.args[3]))

\* x * 2 on a double
FTimes2(x) == IF x = FZero THEN FZero ELSE [x EXCEPT !.e = @ + 1]

\* The arguments are integers here, none negative, so that the two products
\* are exact and only the divisions round.
calculatePositionSize(capital, riskPercent, stopLossPercent, entryPrice, leverage) ==
    LET riskAmount == Fl(capital * riskPercent, 100)
        stopLossAmount == Fl(entryPrice * stopLossPercent, 100)
        quantity == IF stopLossAmount # FZero
                    THEN FFloor(FDiv(riskAmount, stopLossAmount)) ELSE 0
        positionSize == quantity * entryPrice
    IN  [quantity |-> quantity,
         positionSize |-> positionSize,
         marginRequired |-> Rat(positionSize, leverage),
         maxLoss |-> riskAmount,
         maxProfit |-> FTimes2(riskAmount),
         riskAmount |-> riskAmount]

SizingCapitals == {30, 1000, 100000}
SizingRiskPercents == {1, 2, 3}
SizingStopPercents == {0, 1, 2}
SizingEntryPrices == {10, 150, 2500}
SizingLeverages == {1, 5}

PositionSizeCalls ==
    {[fn |-> "calculatePositionSize", args |-> <<c, r, sl, e, lv>>] :
        c \in SizingCapitals, r \in SizingRiskPercents, sl \in SizingStopPercents,
        e \in SizingEntryPrices, lv \in SizingLeverages}

PositionSizeCall ==
    /\ Pending("calculatePositionSize")
    /\ Return(calculatePositionSize(call.args[1], call.args[2], call.args[3],
                                    call.args[4], call.args[5]))

\* the two fields of a trade that the metrics read
MetricTrades ==
    {[status |-> "CLOSED", pnl |-> Some(-10)], [status |-> "CLOSED", pnl |-> Some(0)],
     [status |-> "CLOSED", pnl |-> Some(20)], [status |-> "CLOSED", pnl |-> Undefined],
     [status |-> "OPEN", pnl |-> Undefined], [status |-> "CANCELLED", pnl |-> Undefined]}

TradeLists(n) == UNION {[1..k -> MetricTrades] : k \in 0..n}

MetricsCalls ==
    {[fn |-> "calculatePerformanceMetrics", args |-> <<list>>] :
        list \in TradeLists(MaxMetricTrades)}

\* the metrics are computed twice from the same list, as the provider does
\* whenever the list is set again
MetricsCall ==
    /\ call.fn = "calculatePerformanceMetrics"
    /\ Len(result) < 2
    /\ result' = result \o <<calculatePerformanceMetrics(call.args[1])>>
    /\ UNCHANGED <<call, vArgs, vResult, providerVars>>

\* Mutant of getAdjustedRiskForDrawdown: a drawdown on a boundary stays in
\* the tier below it.
getAdjustedRiskForDrawdown_BoundaryBelow(baseRisk, drawdownPercent) ==
    IF RLe(drawdownPercent, FromInt(5)) THEN baseRisk
    ELSE IF RLe(drawdownPercent, FromInt(10)) THEN RMul(baseRisk, Rat(3, 4))
    ELSE IF RLe(drawdownPercent, FromInt(15)) THEN RMul(baseRisk, Rat(1, 2))
    ELSE IF RLe(drawdownPercent, FromInt(20)) THEN RMul(baseRisk, Rat(1, 4))
    ELSE FromInt(0)

getAdjustedRiskForDrawdown(baseRisk, drawdownPercent) ==
    IF RLt(drawdownPercent, FromInt(5)) THEN baseRisk
    ELSE IF RLt(drawdownPercent, FromInt(10)) THEN RMul(baseRisk, Rat(3, 4))
    ELSE IF RLt(drawdownPercent, FromInt(15)) THEN RMul(baseRisk, Rat(1, 2))
    ELSE IF RLt(drawdownPercent, FromInt(20)) THEN RMul(baseRisk, Rat(1, 4))
    ELSE FromInt(0)

BaseRiskInputs == {FromInt(0), Rat(1, 2), FromInt(1), FromInt(2), FromInt(-1)}
TierDrawdownInputs ==
    {FromInt(-2), FromInt(0), Rat(499, 100), FromInt(5), FromInt(7), Rat(999, 100),
     FromInt(10), FromInt(12), FromInt(15), Rat(35, 2), Rat(1999, 100), FromInt(20),
     FromInt(30)}

AdjustedRiskCalls ==
    {[fn |-> "getAdjustedRiskForDrawdown", args |-> <<b, d>>] :
        b \in BaseRiskInputs, d \in TierDrawdownInputs}

AdjustedRiskCall ==
    /\ Pending("getAdjustedRiskForDrawdown")
    /\ Return(getAdjustedRiskForDrawdown(call.args[1], call.args[2]))

\* the loop of calculateCompounding from the given month on, in binary64
RECURSIVE CompoundFrom(_, _, _, _, _)
CompoundFrom(month, months, capital, cumulativeProfit, rate) ==
    IF month > months THEN <<>>
    ELSE LET profit == FMul(capital, rate)
             grown == FAdd(capital, profit)
             total == FAdd(cumulativeProfit, profit)
         IN  <<[month |-> month, capital |-> grown, profit |-> profit,
                cumulativeProfit |-> total]>>
                \o CompoundFrom(month + 1, months, grown, total, rate)

\* startCapital, monthlyReturnPercent and months are integers here, the first
\* two not negative
calculateCompounding(startCapital, monthlyReturnPercent, months) ==
    CompoundFrom(1, months, Fl(startCapital, 1), FZero, Fl(monthlyReturnPercent, 100))

StartCapitalInputs == {0, 1000, 100000}
MonthlyReturnInputs == {0, 5, 7}
MonthsInputs == -1..MaxMonths

CompoundingCalls ==
    {[fn |-> "calculateCompounding", args |-> <<c, r, n>>] :
        c \in StartCapitalInputs, r \in MonthlyReturnInputs, n \in MonthsInputs}

CompoundingCall ==
    /\ Pending("calculateCompounding")
    /\ Return(calculateCompounding(call.args[1], call.args[2], call.args[3]))

(***************************************************************************)
(* storage.ts: exportTradesToCSV.  A text is a sequence of pieces; a comma *)
(* and a line break are pieces of their own, so that the rows and fields   *)
(* of the CSV text can be counted.                                         *)
(***************************************************************************)
Comma == ","
LineBreak == "\n"

\* String(n) of a number: one piece, it holds neither a comma nor a line break
NumberText(n) == <<ToString(n)>>

\* x.toFixed(2): the decimal with two digits nearest to x, the larger one on
\* a tie; Infinity and NaN are written by name
toFixed2(r) ==
    IF IsNaN(r) THEN <<"NaN">>
    ELSE IF IsInf(r) THEN <<(IF r.n < 0 THEN "-Infinity" ELSE "Infinity")>>
    ELSE LET hundredths == (2 * Abs(r.n) * 100 + r.d) \div (2 * r.d)
             cents == hundredths % 100
         IN  <<(IF r.n < 0 /\ hundredths > 0 THEN "-" ELSE "")
               \o ToString(hundredths \div 100) \o "."
               \o (IF cents < 10 THEN "0" ELSE "") \o ToString(cents)>>

RECURSIVE Join(_, _)
\* items.join(sep)
Join(items, sep) ==
    IF items = <<>> THEN <<>>
    ELSE IF Len(items) = 1 THEN items[1]
    ELSE items[1] \o <<sep>> \o Join(Tail(items), sep)

Headers ==
    <<"Date", "Instrument", "Side", "Entry", "StopLoss", "Target", "Qty", "Exit",
      "P&L", "RR", "Status", "Notes">>

\* the array of one trade; x ?? '' is the empty text when x is absent
CsvRow(t) ==
    <<t.date, t.instrument, <<t.side>>, NumberText(t.entryPrice),
      NumberText(t.stopLoss), NumberText(t.target), NumberText(t.quantity),
      (IF t.exitPrice = Undefined THEN <<>> ELSE NumberText(t.exitPrice[1])),
      (IF t.pnl = Undefined THEN <<>> ELSE NumberText(t.pnl[1])),
      toFixed2(t.riskReward), <<t.status>>,
      (IF t.notes = Undefined THEN <<>> ELSE t.notes[1])>>

exportTradesToCSV(list) ==
    LET headers == [i \in 1..Len(Headers) |-> <<Headers[i]>>]
        rows == [i \in 1..Len(list) |-> CsvRow(list[i])]
        lines == <<Join(headers, Comma)>> \o [i \in 1..Len(rows) |-> Join(rows[i], Comma)]
    IN  Join(lines, LineBreak)

MaxExportTrades == 2
InstrumentInputs == {<<"NIFTY">>, <<"GOLD", Comma, "MINI">>}
NotesInputs == {Undefined, Some(<<"breakout">>), Some(<<"stopped", LineBreak, "early">>)}

ExportTrades ==
    {[date |-> <<"2024-01-15">>, instrument |-> ins, side |-> "LONG",
      entryPrice |-> 100, stopLoss |-> 99, target |-> 102, quantity |-> 2,
      exitPrice |-> Undefined, pnl |-> Undefined, riskReward |-> FromInt(2),
      status |-> "OPEN", notes |-> nt] : ins \in InstrumentInputs, nt \in NotesInputs}
    \cup
    {[date |-> <<"2024-01-16">>, instrument |-> ins, side |-> "SHORT",
      entryPrice |-> 100, stopLoss |-> 103, target |-> 93, quantity |-> 2,
      exitPrice |-> Some(110), pnl |-> Some(-20), riskReward |-> Rat(7, 3),
      status |-> "CLOSED", notes |-> nt] : ins \in InstrumentInputs, nt \in NotesInputs}

ExportCalls ==
    {[fn |-> "exportTradesToCSV", args |-> <<list>>] :
        list \in UNION {[1..k -> ExportTrades] : k \in 0..MaxExportTrades}}

ExportCall ==
    /\ Pending("exportTradesToCSV")
    /\ Return(exportTradesToCSV(call.args[1]))

(***************************************************************************)
(* The calculators called on every input drawn.                            *)
(***************************************************************************)
CoreCalls ==
    KellyCalls \cup PositionSizeCalls \cup MetricsCalls \cup AdjustedRiskCalls
        \cup CompoundingCalls \cup ExportCalls

InitCore ==
    /\ InitProvider
    /\ burst = 1
    /\ vArgs = DefaultArgs
    /\ vResult = NoResult
    /\ call \in CoreCalls
    /\ result = Undefined

NextCore ==
    \/ KellyCall
    \/ PositionSizeCall
    \/ MetricsCall
    \/ AdjustedRiskCall
    \/ CompoundingCall
    \/ ExportCall

SpecCore == InitCore /\ [][NextCore]_vars

(***************************************************************************)
(* Properties                                                              *)
(***************************************************************************)
RECURSIVE ClosedPnl(_)
\* the sum of pnl over the CLOSED trades of a list
ClosedPnl(list) ==
    IF list = <<>> THEN 0
    ELSE (IF Head(list).status = "CLOSED" /\ Head(list).pnl # Undefined
          THEN Head(list).pnl[1] ELSE 0) + ClosedPnl(Tail(list))

ClosedWithPnl(list) ==
    {i \in DOMAIN list : list[i].status = "CLOSED" /\ list[i].pnl # Undefined
                         /\ list[i].pnl[1] # 0}

\* nothing is queued: the provider has rendered every earlier call
Quiet == phase = "idle" /\ calls = 0

\* the step applies the updater at the head of the portfolio queue
PortfolioStep ==
    /\ phase \in {"portfolio", "rerender"}
    /\ portfolioQ # <<>>
    /\ portfolioQ' = Tail(portfolioQ)

UpdateStep == PortfolioStep /\ Head(portfolioQ).op = "update"

Supplies(f) == UpdateStep /\ f \in DOMAIN Head(portfolioQ).updates

\* C1: when closeTrade has been called for distinct OPEN trades in quick
\* succession and every queued updater has been applied, dailyPnL, weeklyPnL,
\* monthlyPnL and currentEquity have each grown by the pnl of every trade
\* closed: no close is lost.
NoLostUpdateOnClose ==
    Quiet =>
        /\ portfolio.dailyPnL = ClosedPnl(trades)
        /\ portfolio.weeklyPnL = ClosedPnl(trades)
        /\ portfolio.monthlyPnL = ClosedPnl(trades)
        /\ portfolio.currentEquity = DefaultCapital + ClosedPnl(trades)

\* C2: the stored drawdown is max(0, (peakEquity - currentEquity) / peakEquity
\* * 100) of the stored peakEquity and currentEquity, 0 when peakEquity <= 0;
\* in particular it is never negative.
DrawdownMatchesStoredEquity ==
    portfolio.drawdown =
        RMax(FromInt(0), calculateDrawdown(portfolio.currentEquity, portfolio.peakEquity))

MaxDrawdownMonotone ==
    [][ /\ ~Supplies("maxDrawdown")
            => RLe(portfolio.maxDrawdown, portfolio'.maxDrawdown)
        /\ UpdateStep => RGe(portfolio'.maxDrawdown, portfolio'.drawdown) ]_vars

\* the drawdown has recovered below a maxDrawdown that is kept
MaxDrawdownRetained ==
    /\ RGt(portfolio.maxDrawdown, FromInt(0))
    /\ RLt(portfolio.drawdown, portfolio.maxDrawdown)
    /\ portfolio.leverage # DEFAULT_PORTFOLIO.leverage
    /\ portfolio.isTradingLocked

\* C5: peakEquity >= currentEquity in every reachable state; an
\* updatePortfolio step in which currentEquity exceeds the existing
\* peakEquity stores peakEquity = currentEquity; and no step lowers
\* peakEquity unless its update supplies peakEquity.
PeakAtLeastEquity == portfolio.peakEquity >= portfolio.currentEquity

PeakTracksEquity ==
    /\ []PeakAtLeastEquity
    /\ [][ /\ UpdateStep =>
                LET updated == Merge(portfolio, Head(portfolioQ).updates)
                IN  updated.currentEquity > updated.peakEquity
                        => portfolio'.peakEquity = portfolio'.currentEquity
           /\ ~Supplies("peakEquity") => portfolio'.peakEquity >= portfolio.peakEquity
         ]_vars

\* a profit has lifted the equity, and the peak with it, above the capital
PeakRaisedByProfit ==
    /\ portfolio.currentEquity > portfolio.capital
    /\ portfolio.peakEquity = portfolio.currentEquity

\* C6: every trade of the list has pnl defined, and exitPrice defined, if and
\* only if its status is CLOSED.
PnlAndExitIffClosed ==
    \A i \in DOMAIN trades :
        /\ (trades[i].pnl # Undefined) <=> (trades[i].status = "CLOSED")
        /\ (trades[i].exitPrice # Undefined) <=> (trades[i].status = "CLOSED")

\* a closed trade next to an open one
ClosedBesideOpen ==
    /\ \E i \in DOMAIN trades : trades[i].status = "CLOSED" /\ trades[i].pnl # Undefined
    /\ \E i \in DOMAIN trades : trades[i].status = "OPEN"

\* the step applies the updater at the head of the trades queue
TradesStep ==
    /\ phase = "trades"
    /\ tradesQ # <<>>
    /\ tradesQ' = Tail(tradesQ)

\* C7: the updaters of closeTrade(id, exitPrice) keep the length and order of
\* the list and every trade with another id; in the trade with that id
\* status becomes CLOSED, exitPrice the given price and pnl (exitPrice -
\* entryPrice) * quantity for LONG, (entryPrice - exitPrice) * quantity for
\* SHORT, and riskReward and every other field stay as they were.
CloseChangesOnlyItsTrade ==
    [][ (TradesStep /\ Head(tradesQ).op \in {"closeMap", "closeFx"}) =>
            LET u == Head(tradesQ)
            IN  /\ Len(trades') = Len(trades)
                /\ \A i \in DOMAIN trades :
                     IF u.op = "closeMap" /\ trades[i].id = u.id
                     THEN /\ trades'[i].status = "CLOSED"
                          /\ trades'[i].exitPrice = <<u.exitPrice>>
                          /\ trades[i].side = "LONG" =>
                               trades'[i].pnl =
                                 <<(u.exitPrice - trades[i].entryPrice) * trades[i].quantity>>
                          /\ trades[i].side = "SHORT" =>
                               trades'[i].pnl =
                                 <<(trades[i].entryPrice - u.exitPrice) * trades[i].quantity>>
                          /\ \A f \in DOMAIN trades[i] \ {"exitPrice", "pnl", "status"} :
                               trades'[i][f] = trades[i][f]
                     ELSE trades'[i] = trades[i] ]_vars

\* a SHORT trade closed at a profit or a loss while the other trade is open
ShortClosedBesideOpen ==
    /\ Len(trades) = 2
    /\ \E i \in DOMAIN trades :
         /\ trades[i].side = "SHORT"
         /\ trades[i].status = "CLOSED"
         /\ trades[i].pnl # Undefined /\ trades[i].pnl # <<0>>
    /\ \E i \in DOMAIN trades : trades[i].status = "OPEN"

Validated == vResult # NoResult

Has(seq, x) == \E i \in DOMAIN seq : seq[i] = x

\* pnl < 0 and |pnl| / capital * 100 >= limit in exact arithmetic, for
\* capital > 0 and a limit n / d
LossAtOrOverLimit(pnl, capital, limit) ==
    pnl < 0 /\ (-pnl) * 100 * limit.d >= limit.n * capital

\* the condition of each blocking rule, as the validator evaluates it
RuleViolated(r, a) ==
    CASE r = "RR"       -> a.riskReward.n < 2 * a.riskReward.d
      [] r = "RISK"     -> a.riskPercent.n * a.limits.riskPerTrade.d
                             > a.limits.riskPerTrade.n * a.riskPercent.d
      [] r = "DAILY"    -> a.portfolio.dailyPnL < 0
                             /\ FGe(LossPercent(a.portfolio.dailyPnL, a.portfolio.capital),
                                    Double(a.limits.dailyLossLimit))
      [] r = "WEEKLY"   -> a.portfolio.weeklyPnL < 0
                             /\ FGe(LossPercent(a.portfolio.weeklyPnL, a.portfolio.capital),
                                    Double(a.limits.weeklyLossLimit))
      [] r = "MONTHLY"  -> a.portfolio.monthlyPnL < 0
                             /\ FGe(LossPercent(a.portfolio.monthlyPnL, a.portfolio.capital),
                                    Double(a.limits.monthlyLossLimit))
      [] r = "DRAWDOWN" -> a.portfolio.drawdown.n > 20 * a.portfolio.drawdown.d
      [] r = "LOCKED"   -> a.portfolio.isTradingLocked

BlockingRules == {"RR", "RISK", "DAILY", "WEEKLY", "MONTHLY", "DRAWDOWN", "LOCKED"}

ViolatedRules(a) == {r \in BlockingRules : RuleViolated(r, a)}

Count(seq, x) == Cardinality({i \in DOMAIN seq : seq[i] = x})

\* C8: each of the seven blocking rules contributes exactly one error when and
\* only when it is violated, whatever the other rules do; isValid is true
\* exactly when no rule is violated, so a warning never makes a result invalid.
RulesIndependent ==
    Validated =>
        /\ \A r \in BlockingRules :
             Count(vResult.errors, r) = IF RuleViolated(r, vArgs) THEN 1 ELSE 0
        /\ Len(vResult.errors) = Cardinality(ViolatedRules(vArgs))
        /\ vResult.isValid <=> ViolatedRules(vArgs) = {}
        /\ (ViolatedRules(vArgs) = {"RR"} /\ vArgs.portfolio.drawdown.n <= 10 * vArgs.portfolio.drawdown.d)
             => Len(vResult.errors) = 1 /\ vResult.warnings = <<>>

\* a drawdown in (10, 20] with nothing else violated: valid, with one warning
ValidDespiteWarning ==
    /\ Validated
    /\ ViolatedRules(vArgs) = {}
    /\ vArgs.portfolio.drawdown.n > 10 * vArgs.portfolio.drawdown.d
    /\ vResult.isValid
    /\ Len(vResult.warnings) = 1

\* C9: the daily, weekly and monthly loss-limit errors are reported if and only
\* if the PnL of that period is strictly negative and |PnL| / capital * 100 >=
\* the limit of that period: a loss equal to the limit is an error and a
\* positive PnL of any size is none.
LossLimitErrors ==
    Validated =>
        LET p == vArgs.portfolio
            l == vArgs.limits
        IN  /\ Has(vResult.errors, "DAILY")
                <=> LossAtOrOverLimit(p.dailyPnL, p.capital, l.dailyLossLimit)
            /\ Has(vResult.errors, "WEEKLY")
                <=> LossAtOrOverLimit(p.weeklyPnL, p.capital, l.weeklyLossLimit)
            /\ Has(vResult.errors, "MONTHLY")
                <=> LossAtOrOverLimit(p.monthlyPnL, p.capital, l.monthlyLossLimit)
            /\ p.dailyPnL >= 0 => ~Has(vResult.errors, "DAILY")
            /\ p.weeklyPnL >= 0 => ~Has(vResult.errors, "WEEKLY")
            /\ p.monthlyPnL >= 0 => ~Has(vResult.errors, "MONTHLY")

\* C10: the drawdown warning is emitted iff drawdown > 10 and the drawdown
\* error iff drawdown > 20, both strictly: neither at exactly 10, only the
\* warning at exactly 20, both above 20.
DrawdownThresholds ==
    Validated =>
        LET dd == vArgs.portfolio.drawdown
            warned == Has(vResult.warnings, "DRAWDOWN_ELEVATED")
            refused == Has(vResult.errors, "DRAWDOWN")
        IN  /\ warned <=> dd.n > 10 * dd.d
            /\ refused <=> dd.n > 20 * dd.d
            /\ dd = FromInt(10) => ~warned /\ ~refused
            /\ dd = FromInt(20) => warned /\ ~refused
            /\ dd.n > 20 * dd.d => warned /\ refused

\* at a drawdown of exactly 20 the warning is there and the error is not
WarningOnlyAtTwenty ==
    /\ Validated
    /\ vArgs.portfolio.drawdown = FromInt(20)
    /\ Has(vResult.warnings, "DRAWDOWN_ELEVATED")
    /\ ~Has(vResult.errors, "DRAWDOWN")

\* the place of each error in the fixed order of the checks
ErrorOrder == <<"RR", "RISK", "DAILY", "WEEKLY", "MONTHLY", "DRAWDOWN", "LOCKED">>

Rank(x) == CHOOSE i \in DOMAIN ErrorOrder : ErrorOrder[i] = x

\* C11: the errors of validateTrade are a subsequence of the fixed order
\* risk-reward, risk-per-trade, daily, weekly, monthly, drawdown, lock,
\* whatever the input values.
ErrorsInFixedOrder ==
    Validated =>
        /\ \A i \in DOMAIN vResult.errors : Has(ErrorOrder, vResult.errors[i])
        /\ \A i, j \in DOMAIN vResult.errors :
             i < j => Rank(vResult.errors[i]) < Rank(vResult.errors[j])

\* every rule is violated at once, and the lock is reported last
AllSevenErrors ==
    /\ Validated
    /\ Len(vResult.errors) = 7
    /\ vResult.errors[7] = "LOCKED"

Returned(fn) == call.fn = fn /\ result # Undefined

\* C12: calculateKellyCriterion returns exactly 0 whenever winRate = 0,
\* winRate = 100 or avgLoss = 0, whatever the other arguments.
KellyZeroAtGuards ==
    Returned("calculateKellyCriterion") =>
        ((call.args[1] = 0 \/ call.args[1] = 100 \/ call.args[3] = 0)
            => result[1] = FromInt(0))

\* (p - (1 - p) / (avgWin / avgLoss)) * 50 clamped to [0, 25], p = winRate /
\* 100, for 0 < winRate < 100 and avgLoss > 0; a zero avgWin makes the
\* fraction unbounded below, which the clamp takes to 0
KellyClamped(winRate, avgWin, avgLoss) ==
    IF avgWin = 0 THEN FromInt(0)
    ELSE LET n == winRate * avgWin - (100 - winRate) * avgLoss
             d == 2 * avgWin
         IN  IF n <= 0 THEN FromInt(0)
             ELSE IF n >= 25 * d THEN FromInt(25)
             ELSE Rat(n, d)

\* C13: for winRate in [0, 100], avgWin >= 0 and avgLoss >= 0,
\* calculateKellyCriterion returns a defined number within [0, 25], equal to
\* the clamped half-Kelly expression when none of the guards winRate = 0,
\* winRate = 100, avgLoss = 0 applies.
KellyWithinCap ==
    Returned("calculateKellyCriterion") =>
        LET r == result[1]
        IN  /\ r.d > 0
            /\ r.n >= 0
            /\ r.n <= 25 * r.d
            /\ ((call.args[1] \notin {0, 100} /\ call.args[3] # 0)
                 => r = KellyClamped(call.args[1], call.args[2], call.args[3]))

\* C14: with riskAmount = capital * riskPercent / 100 and stopLossAmount =
\* entryPrice * stopLossPercent / 100, the quantity of calculatePositionSize
\* is 0 when stopLossAmount = 0 and otherwise the largest integer q with
\* q * stopLossAmount <= riskAmount, so that quantity * stopLossAmount <=
\* riskAmount; capital 100000, risk 1, entry 2500, stop 1 gives 40.
QuantityFitsRisk ==
    Returned("calculatePositionSize") =>
        LET risk100 == call.args[1] * call.args[2]
            stop100 == call.args[4] * call.args[3]
            q == result[1].quantity
        IN  /\ stop100 = 0 => q = 0
            /\ stop100 > 0 => q * stop100 <= risk100 /\ (q + 1) * stop100 > risk100
            /\ call.args = <<100000, 1, 1, 2500, 1>> => q = 40

\* the pnl of the CLOSED trades of a list that have one, in list order
RECURSIVE PnlsOfClosed(_)
PnlsOfClosed(list) ==
    IF list = <<>> THEN <<>>
    ELSE (IF Head(list).status = "CLOSED" /\ Head(list).pnl # Undefined
          THEN <<Head(list).pnl[1]>> ELSE <<>>) \o PnlsOfClosed(Tail(list))

MetricsReturned == call.fn = "calculatePerformanceMetrics" /\ result # <<>>

\* C15: winningTrades + losingTrades <= totalTrades, where totalTrades is the
\* number of CLOSED trades with a defined pnl; the difference is the number
\* of those trades with pnl exactly 0, which still count in the denominator
\* of winRate.
WinsAndLossesWithinTotal ==
    MetricsReturned =>
        LET m == result[1]
            pnls == PnlsOfClosed(call.args[1])
            zeros == Cardinality({i \in DOMAIN pnls : pnls[i] = 0})
        IN  /\ m.totalTrades = Len(pnls)
            /\ m.winningTrades + m.losingTrades <= m.totalTrades
            /\ m.totalTrades - m.winningTrades - m.losingTrades = zeros
            /\ m.totalTrades > 0 => m.winRate = Rat(m.winningTrades * 100, Len(pnls))

\* a win, a loss and a trade closed at pnl 0 have been counted
ZeroPnlCounted ==
    /\ MetricsReturned
    /\ {-10, 0, 20} \subseteq {PnlsOfClosed(call.args[1])[i] :
                                   i \in DOMAIN PnlsOfClosed(call.args[1])}
    /\ result[1].totalTrades = 3

\* the length of the longest suffix of pnls whose every pnl is > 0 (win) or
\* <= 0 (not win)
RECURSIVE SuffixRun(_, _)
SuffixRun(pnls, win) ==
    IF pnls = <<>> \/ ((pnls[Len(pnls)] > 0) # win) THEN 0
    ELSE 1 + SuffixRun(SubSeq(pnls, 1, Len(pnls) - 1), win)

\* C16: for a non-empty sequence of closed trades the metrics report the
\* trailing run: WIN and the length of the longest suffix with pnl > 0 if the
\* last pnl is > 0, LOSS and the length of the longest suffix with pnl <= 0
\* if the last pnl is <= 0, a pnl of exactly 0 included.
TrailingRunReported ==
    MetricsReturned =>
        LET m == result[1]
            pnls == PnlsOfClosed(call.args[1])
        IN  pnls # <<>> =>
                IF pnls[Len(pnls)] > 0
                THEN m.streakType = "WIN" /\ m.currentStreak = SuffixRun(pnls, TRUE)
                ELSE m.streakType = "LOSS" /\ m.currentStreak = SuffixRun(pnls, FALSE)

\* the length of the longest run of consecutive pnls that are > 0 (win) or
\* <= 0 (not win)
LongestRun(pnls, win) ==
    LET runs == {<<i, j>> \in (DOMAIN pnls) \X (DOMAIN pnls) :
                    i <= j /\ \A k \in i..j : (pnls[k] > 0) = win}
    IN  IF runs = {} THEN 0
        ELSE CHOOSE n \in 1..Len(pnls) :
                /\ \E r \in runs : r[2] - r[1] + 1 = n
                /\ \A r \in runs : r[2] - r[1] + 1 <= n

\* C17: maxWinStreak is the length of the longest run of consecutive closed
\* trades with pnl > 0 and maxLossStreak that of the longest run with pnl <=
\* 0, the trades that are not closed being skipped; a trade with pnl 0 breaks
\* a win run and extends a loss run.
MaxStreaksAreLongestRuns ==
    MetricsReturned =>
        LET m == result[1]
            pnls == PnlsOfClosed(call.args[1])
        IN  /\ m.maxWinStreak = LongestRun(pnls, TRUE)
            /\ m.maxLossStreak = LongestRun(pnls, FALSE)

\* two wins separated by a trade closed at pnl 0: no win run of two
ZeroBreaksWinRun ==
    /\ MetricsReturned
    /\ PnlsOfClosed(call.args[1]) = <<20, 0, 20>>
    /\ result[1].maxWinStreak = 1
    /\ result[1].maxLossStreak = 1

\* the list without its OPEN and CANCELLED trades
WithoutOpenOrCancelled(list) ==
    LET Test(t) == t.status \notin {"OPEN", "CANCELLED"} IN SelectSeq(list, Test)

TierQuarters(dd) ==
    IF dd.n < 5 * dd.d THEN 4
    ELSE IF dd.n < 10 * dd.d THEN 3
    ELSE IF dd.n < 15 * dd.d THEN 2
    ELSE IF dd.n < 20 * dd.d THEN 1
    ELSE 0

\* C19: getAdjustedRiskForDrawdown(baseRisk, d) is baseRisk for d < 5, 0.75,
\* 0.5 and 0.25 of it for d in [5, 10), [10, 15) and [15, 20), and 0 for d >=
\* 20, a drawdown on a boundary taking the tier above it; for baseRisk >= 0
\* the result does not increase with d.
RiskStepsDownWithDrawdown ==
    Returned("getAdjustedRiskForDrawdown") =>
        LET baseRisk == call.args[1]
            dd == call.args[2]
        IN  /\ result[1] = Rat(baseRisk.n * TierQuarters(dd), baseRisk.d * 4)
            /\ baseRisk.n >= 0 =>
                 \A higher \in TierDrawdownInputs :
                    higher.n * dd.d >= dd.n * higher.d =>
                        LET r == getAdjustedRiskForDrawdown(baseRisk, higher)
                        IN  r.n * result[1].d <= result[1].n * r.d

\* a drawdown of exactly 10 halves a positive base risk
HalvedAtTen ==
    /\ Returned("getAdjustedRiskForDrawdown")
    /\ call.args[2] = FromInt(10)
    /\ call.args[1].n > 0
    /\ result[1] = Rat(call.args[1].n, 2 * call.args[1].d)

\* start * (1 + rate / 100)^i, exactly
RECURSIVE CompoundedCapital(_, _, _)
CompoundedCapital(start, rate, i) ==
    IF i = 0 THEN FromInt(start)
    ELSE RMul(CompoundedCapital(start, rate, i - 1), Rat(100 + rate, 100))

\* the double that stands for the exact value r >= 0
Nearest(r) == Fl(r.n, r.d)

\* C20: calculateCompounding(start, rate, months) returns months entries for
\* months >= 1 and none for months <= 0; entry i has month = i, profit_i =
\* capital_(i-1) * rate / 100, capital_i = capital_(i-1) + profit_i with
\* capital_0 = start, and cumulativeProfit_i = capital_i - start; the
\* capitals increase strictly for start > 0 and rate > 0; 100000 at 5 for 3
\* months gives 105000, 110250, 115762.5.
CompoundingSchedule ==
    Returned("calculateCompounding") =>
        LET start == call.args[1]
            rate == call.args[2]
            months == call.args[3]
            rows == result[1]
            Before(i) == CompoundedCapital(start, rate, i - 1)
            After(i) == CompoundedCapital(start, rate, i)
        IN  /\ Len(rows) = IF months >= 1 THEN months ELSE 0
            /\ \A i \in DOMAIN rows :
                 /\ rows[i].month = i
                 /\ rows[i].profit = Nearest(RMul(Before(i), Rat(rate, 100)))
                 /\ rows[i].capital = Nearest(After(i))
                 /\ rows[i].cumulativeProfit = Nearest(RSub(After(i), FromInt(start)))
                 /\ (start > 0 /\ rate > 0) =>
                       FLt(IF i = 1 THEN Fl(start, 1) ELSE rows[i - 1].capital,
                           rows[i].capital)
            /\ (start = 100000 /\ rate = 5 /\ months = 3) =>
                 /\ rows[1].capital = Fl(105000, 1)
                 /\ rows[2].capital = Fl(110250, 1)
                 /\ rows[3].capital = Fl(231525, 2)

RECURSIVE Split(_, _, _, _)
\* the pieces of a text between the separators, in order
Split(text, sep, done, piece) ==
    IF text = <<>> THEN Append(done, piece)
    ELSE IF Head(text) = sep THEN Split(Tail(text), sep, Append(done, piece), <<>>)
    ELSE Split(Tail(text), sep, done, Append(piece, Head(text)))

CsvRows(text) == Split(text, LineBreak, <<>>, <<>>)
CsvFields(row) == Split(row, Comma, <<>>, <<>>)

\* C21: exportTradesToCSV yields n + 1 rows for a list of n trades, the header
\* first and then one row per trade in list order, every row of exactly 12
\* fields in the order of the header, whatever the instrument and the notes hold
CsvHasOneRowPerTrade ==
    Returned("exportTradesToCSV") =>
        LET list == call.args[1]
            rows == CsvRows(result[1])
        IN  /\ Len(rows) = Len(list) + 1
            /\ CsvFields(rows[1]) = [i \in 1..Len(Headers) |-> <<Headers[i]>>]
            /\ \A i \in 1..Len(list) :
                   /\ Len(CsvFields(rows[i + 1])) = 12
                   /\ CsvFields(rows[i + 1]) = CsvRow(list[i])

\* the commit that ends the start-up of the provider
StartupSettles == boot = "rendering" /\ boot' = "ready"

\* C22: load-on-start round trip: when the start-up has settled, the trades,
\* the portfolio and the limits in memory are the ones that were persisted
\* before the provider mounted, and they are persisted again
LoadOnStartRoundTrip ==
    [][(StartupSettles /\ loaded.trades # <<>> /\ loaded.portfolio # Undefined) =>
            /\ trades' = loaded.trades
            /\ portfolio' = loaded.portfolio[1]
            /\ riskLimits' = loaded.limits
            /\ storage' = [trades |-> Some(loaded.trades),
                           portfolio |-> loaded.portfolio,
                           limits |-> Some(loaded.limits)]]_vars

StartedOnStoredData ==
    /\ boot = "ready"
    /\ nextId = StoredTrades + 1
    /\ Len(loaded.trades) = 2
    /\ loaded.portfolio # Undefined
    /\ loaded.limits # DEFAULT_RISK_LIMITS
    /\ trades = loaded.trades
    /\ portfolio.dailyPnL = -20
    /\ riskLimits = loaded.limits
    /\ storage.trades = Some(trades)
    /\ storage.portfolio = Some(portfolio)

\* C29: while the provider starts up, a persisted portfolio is not replaced
\* by another one and a persisted non-empty trade list is not replaced by
\* another list
StartupKeepsStoredData ==
    boot \in {"loaded", "portfolioSaved", "tradesSaved", "rendering"} =>
        /\ loaded.portfolio # Undefined => storage.portfolio = loaded.portfolio
        /\ loaded.trades # <<>> => storage.trades = Some(loaded.trades)

\* the step is a submit of the add form: nothing else calls the validator
Submitted == <<vArgs, vResult>>' # <<vArgs, vResult>>

\* the step enqueues addTrade
AddEnqueued ==
    /\ Len(tradesQ') = Len(tradesQ) + 1
    /\ tradesQ'[Len(tradesQ')].op = "add"

\* C23: a rejected add changes nothing: when validateTrade returns errors for
\* the entered trade, addTrade is not called and the trade list and
\* session.tradesCount stay as they are; a trade is appended only when the
\* error list is empty
RejectedAddChangesNothing ==
    /\ [][(Submitted /\ vResult'.errors # <<>>) =>
             UNCHANGED <<trades, tradesQ, session, sessionQ, portfolioQ, nextId>>]_vars
    /\ [][AddEnqueued => vResult'.errors = <<>>]_vars

RejectedWhileLocked ==
    /\ Quiet
    /\ portfolio.isTradingLocked
    /\ Has(vResult.errors, "LOCKED")
    /\ vArgs.portfolio = portfolio
    /\ Len(trades) = 1
    /\ session.tradesCount = 1
    /\ nextId = 2

\* C24: once the effects have run, metrics is calculatePerformanceMetrics of
\* the current trade list and the persisted trade list is the current one
MetricsAndStorageFollowTrades ==
    (Quiet /\ boot = "ready") =>
        /\ metrics = calculatePerformanceMetrics(trades)
        /\ storage.trades = Some(trades)

\* C27: every trade appended through the add flow of the journal has a
\* riskReward that is a number and at least 2, and a stop-loss distance of
\* at most riskLimits.riskPerTrade percent of the entry
AddedTradesWithinRules ==
    \A i \in DOMAIN trades :
        /\ ~IsNaN(trades[i].riskReward)
        /\ RGe(trades[i].riskReward, FromInt(MinRiskReward))
        /\ RLe(SlPercent(trades[i].entryPrice, trades[i].stopLoss),
               riskLimits.riskPerTrade)

\* C25: in every committed state, three or more consecutive losses imply that
\* trading is locked, with the cooldown reason of the third losing close
LossStreakLocksTrading ==
    Quiet =>
        (session.consecutiveLosses >= LossStreakLock =>
            /\ portfolio.isTradingLocked
            /\ portfolio.lockReason = CooldownReason)

ThreeLossesInARow ==
    /\ Quiet
    /\ Len(trades) = 3
    /\ \A i \in 1..3 : trades[i].status = "CLOSED" /\ trades[i].pnl = Some(-20)
    /\ session.consecutiveLosses = 3
    /\ portfolio.isTradingLocked
    /\ portfolio.lockReason = CooldownReason

\* the trade was CLOSED at the last commit, whose trade list is the saved one
WasClosed(id) ==
    \E i \in DOMAIN loadTrades(storage) :
        loadTrades(storage)[i].id = id /\ loadTrades(storage)[i].status = "CLOSED"

\* the step runs the second updater of closeTrade for a trade that was
\* CLOSED when closeTrade was called
ReclosedStep ==
    /\ phase = "trades"
    /\ tradesQ # <<>>
    /\ Head(tradesQ).op = "closeFx"
    /\ WasClosed(Head(tradesQ).id)

\* C26: closeTrade on a trade that is already CLOSED updates neither the
\* portfolio (dailyPnL, weeklyPnL, monthlyPnL, currentEquity) nor
\* session.consecutiveLosses
ClosedTradeCountedOnce ==
    [][ReclosedStep => (portfolioQ' = portfolioQ /\ sessionQ' = sessionQ)]_vars

\* C28: at every drawdown at which getAdjustedRiskForDrawdown takes a positive
\* base risk to 0, validateTrade returns isValid = FALSE with the drawdown error
StopLevelsAgree ==
    (Validated /\ RGt(vArgs.limits.riskPerTrade, FromInt(0))
               /\ getAdjustedRiskForDrawdown(vArgs.limits.riskPerTrade,
                                             vArgs.portfolio.drawdown) = FromInt(0)) =>
        /\ ~vResult.isValid
        /\ Has(vResult.errors, "DRAWDOWN")

\* the step is a submit that succeeds: the stored password was entered, or no
\* password is stored and the password being set, of at least 4 characters,
\* was confirmed with the same text and is stored
SuccessfulSubmit ==
    /\ login'.authenticated = Some(TRUE)
    /\ \/ /\ login.storedPassword # Undefined
          /\ login.form.password = login.storedPassword[1]
          /\ login'.storedPassword = login.storedPassword
       \/ /\ login.storedPassword = Undefined
          /\ login.form.isSettingPassword
          /\ Len(login.form.password) >= MinPasswordLength
          /\ login.form.confirmPassword = login.form.password
          /\ login'.storedPassword = Some(login.form.password)

\* C30: the platform becomes logged in only by a successful submit; a step
\* that leaves the user logged out leaves the stored password as it is; the
\* password is being set only after one of at least 4 characters was
\* submitted; logout stores the authenticated flag false
LoginGate ==
    /\ [][(~login.loggedIn /\ login'.loggedIn) => SuccessfulSubmit]_vars
    /\ [][~login'.loggedIn => login'.storedPassword = login.storedPassword]_vars
    /\ [][(login.loggedIn /\ ~login'.loggedIn) => login'.authenticated = Some(FALSE)]_vars
    /\ [](login.form.isSettingPassword =>
             Len(login.form.password) >= MinPasswordLength /\ ~login.loggedIn)
    /\ [](login.loggedIn => login.authenticated = Some(TRUE))

LoggedInWithNewPassword ==
    /\ login.loggedIn
    /\ login.authenticated = Some(TRUE)
    /\ login.storedPassword = Some("wxyz")

====
